---- MODULE Spec2Model ----
(***************************************************************************)
(* Model of the text-diff utilities (utils/diffUtils): createTextDiff,     *)
(* getWordDiff, createInlineDiff and getDiffStats, together with the       *)
(* diff-match-patch routines they call (diff_main, diff_cleanupSemantic).  *)
(* A string is a sequence of UTF-16 code units, each a one-character       *)
(* TLA+ string; "H" stands for a high surrogate and "L" and "M" for two    *)
(* low surrogates.                                                         *)
(***************************************************************************)
EXTENDS Integers, Sequences, FiniteSets, TLC

VARIABLES originalText, correctedText, called, diffs, result, stats

\* The text-correction store (stores/textCorrectionStore): the fields of its
\* state, the runs of startProcessing that have been started, each with its
\* position and its local variables, and for the AbortController of each run
\* the store action that called abort() on it, if any.
VARIABLES inputMethod, inputText, googleDocsUrl, isProcessing, processingProgress,
          currentParagraphIndex, paragraphs, isCompleted, error,
          currentAbortController, runs, aborted, calls

storeVars == <<inputMethod, inputText, googleDocsUrl, isProcessing, processingProgress,
               currentParagraphIndex, paragraphs, isCompleted, error,
               currentAbortController, runs, aborted, calls>>

vars == <<originalText, correctedText, called, diffs, result, stats, storeVars>>

(* ------------------------------ bounds -------------------------------- *)

\* Longest input string the model draws, and the most characters the two
\* inputs of a call have together.
MaxLen == 3
MaxTotal == 5

\* Most spans in a view of a ProcessedDiff handed to getDiffStats directly.
MaxSpans == 2

\* Length of the corrected texts that are diffed against a fixed original.
LongLen == 9

\* Most characters the two inputs of a call have together when two calls run
\* side by side.
MaxCallTotal == 2

\* Most runs of startProcessing that are started, and the number of
\* paragraphs of the longest text that is submitted.
MaxRuns == 2
MaxCalls == 3
MaxParagraphs == 4

\* Code units of the inputs: an alphanumeric, a non-alphanumeric printable
\* (CJK text and punctuation fall in this class), a blank and a line feed.
Alphabet == {"a", ".", " ", "\n"}

RECURSIVE StringsOfLen(_)
StringsOfLen(n) ==
    IF n = 0 THEN {<<>>}
    ELSE {Append(s, c) : s \in StringsOfLen(n - 1), c \in Alphabet}

Strings == UNION {StringsOfLen(n) : n \in 0..MaxLen}

(* --------------------------- string helpers --------------------------- *)

Min(x, y) == IF x < y THEN x ELSE y
Max(x, y) == IF x > y THEN x ELSE y

\* String.prototype.substring(from, to), 0-based, end exclusive, clamped.
Substring(s, from, to) ==
    LET f == Max(0, Min(from, Len(s)))
        t == Max(0, Min(to, Len(s)))
    IN  SubSeq(s, Min(f, t) + 1, Max(f, t))

\* String.prototype.substring(from).
SubstringFrom(s, from) == Substring(s, from, Len(s))

\* String.prototype.charAt(i): the empty string outside the string.
CharAt(s, i) == IF i >= 0 /\ i < Len(s) THEN <<s[i + 1]>> ELSE <<>>

\* String.prototype.indexOf(needle, from); -1 when absent.
RECURSIVE IndexOfFrom(_, _, _)
IndexOfFrom(s, needle, from) ==
    IF from + Len(needle) > Len(s) THEN -1
    ELSE IF SubSeq(s, from + 1, from + Len(needle)) = needle THEN from
    ELSE IndexOfFrom(s, needle, from + 1)

IndexOf(s, needle) == IndexOfFrom(s, needle, 0)

RECURSIVE Concat(_)
Concat(ss) == IF ss = <<>> THEN <<>> ELSE Head(ss) \o Concat(Tail(ss))

(* ----------------------- diff-match-patch: basics --------------------- *)

DIFF_DELETE == "DIFF_DELETE"
DIFF_INSERT == "DIFF_INSERT"
DIFF_EQUAL  == "DIFF_EQUAL"

Diff(operation, text) == [op |-> operation, text |-> text]

\* Array.prototype.splice(start, deleteCount, ...items), start 0-based.
Splice(arr, start, deleteCount, items) ==
    SubSeq(arr, 1, start) \o items \o SubSeq(arr, start + deleteCount + 1, Len(arr))

\* arr[i] = v with a 0-based index.
SetAt(arr, i, v) == [arr EXCEPT ![i + 1] = v]

\* Number of characters common to the start of both strings, from n on.
RECURSIVE CommonPrefixFrom(_, _, _)
CommonPrefixFrom(text1, text2, n) ==
    IF n < Len(text1) /\ n < Len(text2) /\ text1[n + 1] = text2[n + 1]
    THEN CommonPrefixFrom(text1, text2, n + 1) ELSE n

diff_commonPrefix(text1, text2) == CommonPrefixFrom(text1, text2, 0)

\* Number of characters common to the end of both strings, from n on.
RECURSIVE CommonSuffixFrom(_, _, _)
CommonSuffixFrom(text1, text2, n) ==
    IF n < Len(text1) /\ n < Len(text2) /\ text1[Len(text1) - n] = text2[Len(text2) - n]
    THEN CommonSuffixFrom(text1, text2, n + 1) ELSE n

diff_commonSuffix(text1, text2) == CommonSuffixFrom(text1, text2, 0)

\* The longest k <= n such that the last k characters of text1 are the
\* first k characters of text2.
RECURSIVE CommonOverlapUpTo(_, _, _)
CommonOverlapUpTo(text1, text2, n) ==
    IF n = 0 THEN 0
    ELSE IF SubSeq(text1, Len(text1) - n + 1, Len(text1)) = SubSeq(text2, 1, n) THEN n
    ELSE CommonOverlapUpTo(text1, text2, n - 1)

\* Length of the longest suffix of text1 that is a prefix of text2.
diff_commonOverlap_(text1, text2) ==
    CommonOverlapUpTo(text1, text2, Min(Len(text1), Len(text2)))

(* ------------------- diff-match-patch: diff_cleanupMerge --------------- *)

\* In the first pass of diff_cleanupMerge, st holds the array diffs, the
\* pointer (0-based as in the library) and text_delete and text_insert.

\* "Factor out any common prefixies": cp is their common prefix length and
\* start the index of the first record of the run of edits.
mergeFactorPrefix(st, start, cp) ==
    IF cp = 0 THEN st
    ELSE IF start > 0 /\ st.ds[start].op = DIFF_EQUAL
    THEN [st EXCEPT !.ds = SetAt(@, start - 1,
                                 Diff(DIFF_EQUAL, @[start].text \o Substring(st.ti, 0, cp))),
                    !.ti = SubstringFrom(@, cp),
                    !.td = SubstringFrom(@, cp)]
    ELSE [ds |-> Splice(st.ds, 0, 0, <<Diff(DIFF_EQUAL, Substring(st.ti, 0, cp))>>),
          pointer |-> st.pointer + 1,
          ti |-> SubstringFrom(st.ti, cp),
          td |-> SubstringFrom(st.td, cp)]

\* "Factor out any common suffixies": cs is their common suffix length.
mergeFactorSuffix(st, cs) ==
    IF cs = 0 THEN st
    ELSE [st EXCEPT !.ds = SetAt(@, st.pointer,
                                 Diff(@[st.pointer + 1].op,
                                      SubstringFrom(st.ti, Len(st.ti) - cs)
                                          \o @[st.pointer + 1].text)),
                    !.ti = Substring(@, 0, Len(@) - cs),
                    !.td = Substring(@, 0, Len(@) - cs)]

mergeFactorSuffixOf(st) == mergeFactorSuffix(st, diff_commonSuffix(st.ti, st.td))

mergeFactor(st, start) ==
    mergeFactorSuffixOf(mergeFactorPrefix(st, start, diff_commonPrefix(st.ti, st.td)))

\* The merged records that replace a run of edits: the deletion, if any,
\* then the insertion, if any.
mergedRecords(td, ti) ==
    (IF Len(td) > 0 THEN <<Diff(DIFF_DELETE, td)>> ELSE <<>>)
        \o (IF Len(ti) > 0 THEN <<Diff(DIFF_INSERT, ti)>> ELSE <<>>)

\* "Delete the offending records and add the merged ones": n is
\* count_delete + count_insert.  Yields the array and the pointer after it.
mergeReplace(st, n) ==
    [ds |-> Splice(st.ds, st.pointer - n, n, mergedRecords(st.td, st.ti)),
     pointer |-> st.pointer - n + Len(mergedRecords(st.td, st.ti)) + 1]

RECURSIVE cleanupMergeLoop(_, _, _, _, _, _)

cleanupMergeResume(r) == cleanupMergeLoop(r.ds, r.pointer, 0, 0, <<>>, <<>>)

\* First pass of diff_cleanupMerge: the while loop that merges runs of
\* edits and factors out what an insertion and a deletion have in common.
cleanupMergeLoop(ds, pointer, count_delete, count_insert, text_delete, text_insert) ==
    IF pointer >= Len(ds) THEN ds
    ELSE IF ds[pointer + 1].op = DIFF_INSERT THEN
        cleanupMergeLoop(ds, pointer + 1, count_delete, count_insert + 1,
                         text_delete, text_insert \o ds[pointer + 1].text)
    ELSE IF ds[pointer + 1].op = DIFF_DELETE THEN
        cleanupMergeLoop(ds, pointer + 1, count_delete + 1, count_insert,
                         text_delete \o ds[pointer + 1].text, text_insert)
    ELSE IF count_delete + count_insert > 1 THEN
        \* Upon reaching an equality, check for prior redundancies.
        cleanupMergeResume(
            mergeReplace(
                IF count_delete # 0 /\ count_insert # 0
                THEN mergeFactor([ds |-> ds, pointer |-> pointer,
                                  td |-> text_delete, ti |-> text_insert],
                                 pointer - count_delete - count_insert)
                ELSE [ds |-> ds, pointer |-> pointer,
                      td |-> text_delete, ti |-> text_insert],
                count_delete + count_insert))
    ELSE IF pointer # 0 /\ ds[pointer].op = DIFF_EQUAL THEN
        \* Merge this equality with the previous one.
        cleanupMergeLoop(
            Splice(SetAt(ds, pointer - 1,
                         Diff(DIFF_EQUAL, ds[pointer].text \o ds[pointer + 1].text)),
                   pointer, 1, <<>>),
            pointer, 0, 0, <<>>, <<>>)
    ELSE
        cleanupMergeLoop(ds, pointer + 1, 0, 0, <<>>, <<>>)

\* "Shift the edit over the previous equality" at pointer.
shiftOverPrevious(ds, pointer, prev, cur, next) ==
    Splice(SetAt(SetAt(ds, pointer,
                       Diff(cur.op, prev.text \o
                            Substring(cur.text, 0, Len(cur.text) - Len(prev.text)))),
                 pointer + 1, Diff(next.op, prev.text \o next.text)),
           pointer - 1, 1, <<>>)

\* "Shift the edit over the next equality" at pointer.
shiftOverNext(ds, pointer, prev, cur, next) ==
    Splice(SetAt(SetAt(ds, pointer - 1, Diff(prev.op, prev.text \o next.text)),
                 pointer,
                 Diff(cur.op, SubstringFrom(cur.text, Len(next.text)) \o next.text)),
           pointer + 1, 1, <<>>)

\* Second pass of diff_cleanupMerge: single edits surrounded by equalities
\* are shifted sideways to eliminate an equality.
RECURSIVE cleanupMergeShift(_, _, _)
cleanupMergeShift(ds, pointer, changes) ==
    IF pointer >= Len(ds) - 1 THEN [diffs |-> ds, changes |-> changes]
    ELSE IF ds[pointer].op = DIFF_EQUAL /\ ds[pointer + 2].op = DIFF_EQUAL THEN
        IF SubstringFrom(ds[pointer + 1].text,
                         Len(ds[pointer + 1].text) - Len(ds[pointer].text))
               = ds[pointer].text
        THEN cleanupMergeShift(
                 shiftOverPrevious(ds, pointer, ds[pointer], ds[pointer + 1], ds[pointer + 2]),
                 pointer + 1, TRUE)
        ELSE IF Substring(ds[pointer + 1].text, 0, Len(ds[pointer + 2].text))
                    = ds[pointer + 2].text
        THEN cleanupMergeShift(
                 shiftOverNext(ds, pointer, ds[pointer], ds[pointer + 1], ds[pointer + 2]),
                 pointer + 1, TRUE)
        ELSE cleanupMergeShift(ds, pointer + 1, changes)
    ELSE cleanupMergeShift(ds, pointer + 1, changes)

\* "Remove the dummy entry at the end" if it is still empty.
popDummy(ds) ==
    IF ds[Len(ds)].text = <<>> THEN SubSeq(ds, 1, Len(ds) - 1) ELSE ds

RECURSIVE diff_cleanupMerge(_)

\* "If shifts were made, the diff needs reordering and another shift sweep."
mergeAgain(shifted) ==
    IF shifted.changes THEN diff_cleanupMerge(shifted.diffs) ELSE shifted.diffs

\* diff_cleanupMerge: reorder and merge like edit sections, merge equalities.
diff_cleanupMerge(ds) ==
    mergeAgain(
        cleanupMergeShift(
            popDummy(cleanupMergeLoop(Append(ds, Diff(DIFF_EQUAL, <<>>)), 0, 0, 0, <<>>, <<>>)),
            1, FALSE))

(* --------------------- diff-match-patch: diff_main -------------------- *)

RECURSIVE diff_main(_, _, _)
RECURSIVE diff_compute_(_, _, _)
RECURSIVE diff_bisect_(_, _, _)

\* Math.ceil(n / m) and Math.floor(n / m) for naturals.
CeilDiv(n, m) == (n + m - 1) \div m
FloorDiv(n, m) == n \div m

\* One occurrence of the seed in shorttext, at j: the common middle around
\* it, of prefixLength characters after and suffixLength before, replaces
\* best if it is longer.
halfMatchAt(longtext, shorttext, i, j, prefixLength, suffixLength, best) ==
    IF Len(best.common) < suffixLength + prefixLength
    THEN [common |-> Substring(shorttext, j - suffixLength, j)
                       \o Substring(shorttext, j, j + prefixLength),
          longtext_a |-> Substring(longtext, 0, i - suffixLength),
          longtext_b |-> SubstringFrom(longtext, i + prefixLength),
          shorttext_a |-> Substring(shorttext, 0, j - suffixLength),
          shorttext_b |-> SubstringFrom(shorttext, j + prefixLength)]
    ELSE best

\* The inner loop of diff_halfMatchI_: every occurrence j of the seed in
\* shorttext, in order, keeping the first longest common middle.
RECURSIVE halfMatchScan(_, _, _, _, _, _)
halfMatchScan(longtext, shorttext, i, seed, j, best) ==
    IF j = -1 THEN best
    ELSE halfMatchScan(longtext, shorttext, i, seed,
             IndexOfFrom(shorttext, seed, j + 1),
             halfMatchAt(longtext, shorttext, i, j,
                 diff_commonPrefix(SubstringFrom(longtext, i), SubstringFrom(shorttext, j)),
                 diff_commonSuffix(Substring(longtext, 0, i), Substring(shorttext, 0, j)),
                 best))

NoHalfMatch == [found |-> FALSE]

\* The result of diff_halfMatchI_: best counts if its common middle is at
\* least half of longtext.
halfMatchIfLong(longtext, best) ==
    IF Len(best.common) * 2 >= Len(longtext)
    THEN [found |-> TRUE, hm |-> best]
    ELSE NoHalfMatch

\* diff_halfMatchI_: does a substring of shorttext exist within longtext
\* such that the substring is at least half the length of longtext?
diff_halfMatchI_(longtext, shorttext, i) ==
    halfMatchIfLong(longtext,
        halfMatchScan(longtext, shorttext, i,
            Substring(longtext, i, i + FloorDiv(Len(longtext), 4)),
            IndexOfFrom(shorttext, Substring(longtext, i, i + FloorDiv(Len(longtext), 4)), 0),
            [common |-> <<>>, longtext_a |-> <<>>, longtext_b |-> <<>>,
             shorttext_a |-> <<>>, shorttext_b |-> <<>>]))

\* The better of the two half matches of diff_halfMatch_.
halfMatchChoose(hm1, hm2) ==
    IF ~hm2.found THEN hm1.hm
    ELSE IF ~hm1.found THEN hm2.hm
    ELSE IF Len(hm1.hm.common) > Len(hm2.hm.common) THEN hm1.hm ELSE hm2.hm

\* "A half-match was found, sort out the return data."
halfMatchSort(text1, text2, hm) ==
    IF Len(text1) > Len(text2)
    THEN [found |-> TRUE, text1_a |-> hm.longtext_a, text1_b |-> hm.longtext_b,
          text2_a |-> hm.shorttext_a, text2_b |-> hm.shorttext_b, mid_common |-> hm.common]
    ELSE [found |-> TRUE, text2_a |-> hm.longtext_a, text2_b |-> hm.longtext_b,
          text1_a |-> hm.shorttext_a, text1_b |-> hm.shorttext_b, mid_common |-> hm.common]

halfMatchPick(text1, text2, hm1, hm2) ==
    IF ~hm1.found /\ ~hm2.found THEN NoHalfMatch
    ELSE halfMatchSort(text1, text2, halfMatchChoose(hm1, hm2))

halfMatchOf(text1, text2, longtext, shorttext) ==
    IF Len(longtext) < 4 \/ Len(shorttext) * 2 < Len(longtext) THEN NoHalfMatch
    ELSE halfMatchPick(text1, text2,
             diff_halfMatchI_(longtext, shorttext, CeilDiv(Len(longtext), 4)),
             diff_halfMatchI_(longtext, shorttext, CeilDiv(Len(longtext), 2)))

\* diff_halfMatch_ (Diff_Timeout = 1.0 > 0, so the speedup is enabled).
diff_halfMatch_(text1, text2) ==
    IF Len(text1) > Len(text2)
    THEN halfMatchOf(text1, text2, text1, text2)
    ELSE halfMatchOf(text1, text2, text2, text1)

\* v[i] of the bisect arrays (initialised to -1).
VGet(v, i) == IF i \in DOMAIN v THEN v[i] ELSE -1

\* Length of the diagonal run ("snake") of equal characters from (x, y),
\* walking forward.
RECURSIVE SnakeFront(_, _, _, _)
SnakeFront(text1, text2, x, y) ==
    IF x < Len(text1) /\ y < Len(text2) /\ text1[x + 1] = text2[y + 1]
    THEN 1 + SnakeFront(text1, text2, x + 1, y + 1) ELSE 0

\* The same from the ends of the strings, walking backward.
RECURSIVE SnakeReverse(_, _, _, _)
SnakeReverse(text1, text2, x, y) ==
    IF x < Len(text1) /\ y < Len(text2)
       /\ text1[Len(text1) - x] = text2[Len(text2) - y]
    THEN 1 + SnakeReverse(text1, text2, x + 1, y + 1) ELSE 0

\* diff_bisectSplit_: split at the middle snake and diff both halves.
diff_bisectSplit_(text1, text2, x, y, expired) ==
    diff_main(Substring(text1, 0, x), Substring(text2, 0, y), expired)
        \o diff_main(SubstringFrom(text1, x), SubstringFrom(text2, y), expired)

\* The x at which diagonal k starts in edit distance d, from the furthest
\* reaching points v of distance d - 1 (k_offset is k's index in v).
bisectStart(v, d, k, k_offset) ==
    IF k = -d \/ (k # d /\ VGet(v, k_offset - 1) < VGet(v, k_offset + 1))
    THEN VGet(v, k_offset + 1)
    ELSE VGet(v, k_offset - 1) + 1

\* Half the total length, rounded up: max_d, which is also v_offset, and
\* half of v_length.
MaxD(text1, text2) == CeilDiv(Len(text1) + Len(text2), 2)

RECURSIVE bisectFront(_, _, _, _, _)

\* The body of the for loop over k1, once the snake from diagonal k1 has
\* been followed to x1 (so y1 = x1 - k1); k2_offset is the mirror diagonal.
bisectFrontAt(text1, text2, d, k1, st, x1, k2_offset) ==
    IF x1 > Len(text1) THEN
        bisectFront(text1, text2, d, k1 + 2,
                    [st EXCEPT !.v1[MaxD(text1, text2) + k1] = x1, !.k1end = @ + 2])
    ELSE IF x1 - k1 > Len(text2) THEN
        bisectFront(text1, text2, d, k1 + 2,
                    [st EXCEPT !.v1[MaxD(text1, text2) + k1] = x1, !.k1start = @ + 2])
    ELSE IF (Len(text1) - Len(text2)) % 2 # 0
            /\ k2_offset >= 0 /\ k2_offset < 2 * MaxD(text1, text2)
            /\ st.v2[k2_offset] # -1
            /\ x1 >= Len(text1) - st.v2[k2_offset] THEN
        [hit |-> TRUE, x |-> x1, y |-> x1 - k1]
    ELSE
        bisectFront(text1, text2, d, k1 + 2,
                    [st EXCEPT !.v1[MaxD(text1, text2) + k1] = x1])

bisectFrontFrom(text1, text2, d, k1, st, x1) ==
    bisectFrontAt(text1, text2, d, k1, st,
                  x1 + SnakeFront(text1, text2, x1, x1 - k1),
                  MaxD(text1, text2) + Len(text1) - Len(text2) - k1)

\* "Walk the front path one step": the for loop over k1 of diff_bisect_.
\* Yields either the point of overlap or the updated loop state.
bisectFront(text1, text2, d, k1, st) ==
    IF k1 > d - st.k1end THEN [hit |-> FALSE, st |-> st]
    ELSE bisectFrontFrom(text1, text2, d, k1, st,
                         bisectStart(st.v1, d, k1, MaxD(text1, text2) + k1))

RECURSIVE bisectReverse(_, _, _, _, _)

\* The body of the for loop over k2, once the snake from diagonal k2 has
\* been followed to x2 (so y2 = x2 - k2); k1_offset is the mirror diagonal.
bisectReverseAt(text1, text2, d, k2, st, x2, k1_offset) ==
    IF x2 > Len(text1) THEN
        bisectReverse(text1, text2, d, k2 + 2,
                      [st EXCEPT !.v2[MaxD(text1, text2) + k2] = x2, !.k2end = @ + 2])
    ELSE IF x2 - k2 > Len(text2) THEN
        bisectReverse(text1, text2, d, k2 + 2,
                      [st EXCEPT !.v2[MaxD(text1, text2) + k2] = x2, !.k2start = @ + 2])
    ELSE IF (Len(text1) - Len(text2)) % 2 = 0
            /\ k1_offset >= 0 /\ k1_offset < 2 * MaxD(text1, text2)
            /\ st.v1[k1_offset] # -1
            /\ st.v1[k1_offset] >= Len(text1) - x2 THEN
        [hit |-> TRUE, x |-> st.v1[k1_offset],
         y |-> MaxD(text1, text2) + st.v1[k1_offset] - k1_offset]
    ELSE
        bisectReverse(text1, text2, d, k2 + 2,
                      [st EXCEPT !.v2[MaxD(text1, text2) + k2] = x2])

bisectReverseFrom(text1, text2, d, k2, st, x2) ==
    bisectReverseAt(text1, text2, d, k2, st,
                    x2 + SnakeReverse(text1, text2, x2, x2 - k2),
                    MaxD(text1, text2) + Len(text1) - Len(text2) - k2)

\* "Walk the reverse path one step": the for loop over k2 of diff_bisect_.
bisectReverse(text1, text2, d, k2, st) ==
    IF k2 > d - st.k2end THEN [hit |-> FALSE, st |-> st]
    ELSE bisectReverseFrom(text1, text2, d, k2, st,
                           bisectStart(st.v2, d, k2, MaxD(text1, text2) + k2))

RECURSIVE bisectLoop(_, _, _, _, _)

\* After the reverse walk r of edit distance d: split at the overlap, or go
\* on to d + 1.
bisectAfterReverse(text1, text2, d, r, expired) ==
    IF r.hit THEN diff_bisectSplit_(text1, text2, r.x, r.y, expired)
    ELSE bisectLoop(text1, text2, d + 1, r.st, expired)

\* After the front walk f of edit distance d: split at the overlap, or
\* walk the reverse path.
bisectAfterFront(text1, text2, d, f, expired) ==
    IF f.hit THEN diff_bisectSplit_(text1, text2, f.x, f.y, expired)
    ELSE bisectAfterReverse(text1, text2, d,
             bisectReverse(text1, text2, d, -d + f.st.k2start, f.st), expired)

\* The for loop of diff_bisect_ that, once the deadline has passed, gives
\* up with the deletion alone.
bisectLoop_TimeoutDropsInsert(text1, text2, d, st, expired) ==
    IF expired THEN <<Diff(DIFF_DELETE, text1)>>
    ELSE IF d >= MaxD(text1, text2)
    THEN <<Diff(DIFF_DELETE, text1), Diff(DIFF_INSERT, text2)>>
    ELSE bisectAfterFront(text1, text2, d,
             bisectFront(text1, text2, d, -d + st.k1start, st), expired)

\* The for loop over d of diff_bisect_.  expired models the test
\* (new Date()).getTime() > deadline, which ends the loop.
bisectLoop(text1, text2, d, st, expired) ==
    IF d >= MaxD(text1, text2) \/ expired THEN
        \* Diff took too long and hit the deadline, or the number of diffs
        \* equals the number of characters: no commonality at all.
        <<Diff(DIFF_DELETE, text1), Diff(DIFF_INSERT, text2)>>
    ELSE bisectAfterFront(text1, text2, d,
             bisectFront(text1, text2, d, -d + st.k1start, st), expired)

\* The arrays v1 and v2 of diff_bisect_, of the given length: -1
\* everywhere, 0 at v_offset + 1.
bisectArray(v_offset, v_length) ==
    [x \in 0..(v_length - 1) |-> IF x = v_offset + 1 THEN 0 ELSE -1]

\* diff_bisect_: find the 'middle snake' of a diff, split the problem in
\* two and return the recursively constructed diff (Myers 1986).
diff_bisect_(text1, text2, expired) ==
    bisectLoop(text1, text2, 0,
               [v1 |-> bisectArray(MaxD(text1, text2), 2 * MaxD(text1, text2)),
                v2 |-> bisectArray(MaxD(text1, text2), 2 * MaxD(text1, text2)),
                k1start |-> 0, k1end |-> 0, k2start |-> 0, k2end |-> 0],
               expired)

\* diff_compute_ once a half match has been looked for.
computeHalves(text1, text2, hm, expired) ==
    IF hm.found THEN
        diff_main(hm.text1_a, hm.text2_a, expired)
            \o <<Diff(DIFF_EQUAL, hm.mid_common)>>
            \o diff_main(hm.text1_b, hm.text2_b, expired)
    ELSE diff_bisect_(text1, text2, expired)

\* diff_compute_ for two non-empty texts: i is the index of shorttext in
\* longtext, op the edit that turns text1 into text2 around it.
computeWithin(text1, text2, longtext, shorttext, op, i, expired) ==
    IF i # -1 THEN
        <<Diff(op, Substring(longtext, 0, i)),
          Diff(DIFF_EQUAL, shorttext),
          Diff(op, SubstringFrom(longtext, i + Len(shorttext)))>>
    ELSE IF Len(shorttext) = 1 THEN
        <<Diff(DIFF_DELETE, text1), Diff(DIFF_INSERT, text2)>>
    ELSE computeHalves(text1, text2, diff_halfMatch_(text1, text2), expired)

\* diff_compute_: the differences between two texts that share no common
\* prefix or suffix.  The line-mode speedup needs both texts longer than
\* 100 characters.
diff_compute_(text1, text2, expired) ==
    IF text1 = <<>> THEN <<Diff(DIFF_INSERT, text2)>>
    ELSE IF text2 = <<>> THEN <<Diff(DIFF_DELETE, text1)>>
    ELSE IF Len(text1) > Len(text2)
    THEN computeWithin(text1, text2, text1, text2, DIFF_DELETE, IndexOf(text1, text2), expired)
    ELSE computeWithin(text1, text2, text2, text1, DIFF_INSERT, IndexOf(text2, text1), expired)

\* diff_main after the common prefix has been trimmed off: t1 and t2 are
\* the rest of the texts and sl the length of their common suffix.
mainTrimmed(commonprefix, t1, t2, sl, expired) ==
    diff_cleanupMerge(
        (IF commonprefix # <<>> THEN <<Diff(DIFF_EQUAL, commonprefix)>> ELSE <<>>)
            \o diff_compute_(Substring(t1, 0, Len(t1) - sl),
                             Substring(t2, 0, Len(t2) - sl), expired)
            \o (IF sl > 0 THEN <<Diff(DIFF_EQUAL, SubstringFrom(t1, Len(t1) - sl))>>
                ELSE <<>>))

\* diff_main for different texts whose common prefix has length pl.
mainDifferent(text1, text2, pl, expired) ==
    mainTrimmed(Substring(text1, 0, pl),
                SubstringFrom(text1, pl), SubstringFrom(text2, pl),
                diff_commonSuffix(SubstringFrom(text1, pl), SubstringFrom(text2, pl)),
                expired)

\* diff_main: the differences between two texts.  expired: whether the
\* deadline (now + Diff_Timeout) has passed when diff_bisect_ tests it.
diff_main(text1In, text2In, expired) ==
    IF text1In = text2In THEN
        IF text1In # <<>> THEN <<Diff(DIFF_EQUAL, text1In)>> ELSE <<>>
    ELSE mainDifferent(text1In, text2In,
                       diff_commonPrefix(text1In, text2In), expired)

(* ---------------- diff-match-patch: diff_cleanupSemantic --------------- *)

\* Character classes of the regular expressions nonAlphaNumericRegex_
\* (/[^a-zA-Z0-9]/), whitespaceRegex_ (/\s/) and linebreakRegex_ (/[\r\n]/).
AlphaNumeric == {"a", "b", "c", "x", "y", "0", "1"}
Whitespace == {" ", "\t", "\n", "\r", "\f"}
LineBreak == {"\n", "\r"}

StartsWith(s, pre) == Len(s) >= Len(pre) /\ SubSeq(s, 1, Len(pre)) = pre
EndsWith(s, suf) == Len(s) >= Len(suf) /\ SubstringFrom(s, Len(s) - Len(suf)) = suf

\* blanklineEndRegex_ = /\n\r?\n$/ and blanklineStartRegex_ = /^\r?\n\r?\n/.
BlanklineEnd(s) == EndsWith(s, <<"\n", "\n">>) \/ EndsWith(s, <<"\n", "\r", "\n">>)
BlanklineStart(s) ==
    \/ StartsWith(s, <<"\n", "\n">>)
    \/ StartsWith(s, <<"\r", "\n", "\n">>)
    \/ StartsWith(s, <<"\n", "\r", "\n">>)
    \/ StartsWith(s, <<"\r", "\n", "\r", "\n">>)

\* diff_cleanupSemanticScore_: how well the boundary between one and two
\* falls on logical boundaries, from 6 (best) to 0 (worst).
diff_cleanupSemanticScore_(one, two) ==
    IF one = <<>> \/ two = <<>> THEN 6
    ELSE
    LET char1 == one[Len(one)]
        char2 == two[1]
        nonAlphaNumeric1 == char1 \notin AlphaNumeric
        nonAlphaNumeric2 == char2 \notin AlphaNumeric
        whitespace1 == nonAlphaNumeric1 /\ char1 \in Whitespace
        whitespace2 == nonAlphaNumeric2 /\ char2 \in Whitespace
        lineBreak1 == whitespace1 /\ char1 \in LineBreak
        lineBreak2 == whitespace2 /\ char2 \in LineBreak
        blankLine1 == lineBreak1 /\ BlanklineEnd(one)
        blankLine2 == lineBreak2 /\ BlanklineStart(two)
    IN
    IF blankLine1 \/ blankLine2 THEN 5
    ELSE IF lineBreak1 \/ lineBreak2 THEN 4
    ELSE IF nonAlphaNumeric1 /\ ~whitespace1 /\ whitespace2 THEN 3
    ELSE IF whitespace1 \/ whitespace2 THEN 2
    ELSE IF nonAlphaNumeric1 \/ nonAlphaNumeric2 THEN 1
    ELSE 0

\* A candidate position of an edit between two equalities, with its score.
Scored(equality1, edit, equality2) ==
    [score |-> diff_cleanupSemanticScore_(equality1, edit)
                 + diff_cleanupSemanticScore_(edit, equality2),
     equality1 |-> equality1, edit |-> edit, equality2 |-> equality2]

\* "The >= encourages trailing rather than leading whitespace on edits."
betterOf(candidate, best) == IF candidate.score >= best.score THEN candidate ELSE best

RECURSIVE losslessSlide(_, _, _, _)

losslessSlideTo(e1, ed, e2, best) ==
    losslessSlide(e1, ed, e2, betterOf(Scored(e1, ed, e2), best))

\* The inner while loop of diff_cleanupSemanticLossless: step character by
\* character right, looking for the best fit.
losslessSlide(equality1, edit, equality2, best) ==
    IF CharAt(edit, 0) # CharAt(equality2, 0) THEN best
    ELSE losslessSlideTo(equality1 \o CharAt(edit, 0),
                         SubstringFrom(edit, 1) \o CharAt(equality2, 0),
                         SubstringFrom(equality2, 1),
                         best)

\* "First, shift the edit as far left as possible", by commonOffset
\* characters, then slide it right from there.
losslessBest(eq1, ed0, eq2, commonOffset) ==
    losslessSlide(
        Substring(eq1, 0, Len(eq1) - commonOffset),
        SubstringFrom(ed0, Len(ed0) - commonOffset) \o Substring(ed0, 0, Len(ed0) - commonOffset),
        SubstringFrom(ed0, Len(ed0) - commonOffset) \o eq2,
        Scored(Substring(eq1, 0, Len(eq1) - commonOffset),
               SubstringFrom(ed0, Len(ed0) - commonOffset)
                   \o Substring(ed0, 0, Len(ed0) - commonOffset),
               SubstringFrom(ed0, Len(ed0) - commonOffset) \o eq2))

\* Save equality1 back to the diff at index p - 1, or drop that record.
\* Yields the array and the index of the edit.
saveEquality1(ds, p, best) ==
    IF best.equality1 # <<>>
    THEN [ds |-> SetAt(ds, p - 1, Diff(DIFF_EQUAL, best.equality1)), p |-> p]
    ELSE [ds |-> Splice(ds, p - 1, 1, <<>>), p |-> p - 1]

\* Save the edit back at index r.p.
saveEdit(r, best) ==
    [r EXCEPT !.ds = SetAt(@, r.p, Diff(@[r.p + 1].op, best.edit))]

\* Save equality2 back at index r.p + 1, or drop that record.
saveEquality2(r, best) ==
    IF best.equality2 # <<>>
    THEN [r EXCEPT !.ds = SetAt(@, r.p + 1, Diff(@[r.p + 2].op, best.equality2))]
    ELSE [ds |-> Splice(r.ds, r.p + 1, 1, <<>>), p |-> r.p - 1]

RECURSIVE losslessLoop(_, _)

losslessResume(r) == losslessLoop(r.ds, r.p + 1)

\* "We have an improvement, save it back to the diff", if equality1 moved.
losslessSave(ds, pointer, best) ==
    IF ds[pointer].text # best.equality1
    THEN losslessResume(saveEquality2(saveEdit(saveEquality1(ds, pointer, best), best), best))
    ELSE losslessLoop(ds, pointer + 1)

\* The while loop over pointer of diff_cleanupSemanticLossless.
losslessLoop(ds, pointer) ==
    IF pointer >= Len(ds) - 1 THEN ds
    ELSE IF ds[pointer].op = DIFF_EQUAL /\ ds[pointer + 2].op = DIFF_EQUAL THEN
        losslessSave(ds, pointer,
            losslessBest(ds[pointer].text, ds[pointer + 1].text, ds[pointer + 2].text,
                         diff_commonSuffix(ds[pointer].text, ds[pointer + 1].text)))
    ELSE losslessLoop(ds, pointer + 1)

\* diff_cleanupSemanticLossless: shift single edits surrounded by
\* equalities sideways to align them to word boundaries.
diff_cleanupSemanticLossless(ds) == losslessLoop(ds, 1)

\* The first while loop of diff_cleanupSemantic: eliminate an equality that
\* is smaller than or equal to the edits on both sides of it.  A null
\* lastEquality is the empty string (both are falsy).  equalities is the
\* stack of indices where equalities are found, equalitiesLength its top.
RECURSIVE semanticLoop(_)
semanticLoop(st) ==
    IF st.pointer >= Len(st.diffs) THEN st
    ELSE
    LET cur == st.diffs[st.pointer + 1] IN
    IF cur.op = DIFF_EQUAL THEN
        semanticLoop([st EXCEPT !.equalities = (st.equalitiesLength :> st.pointer) @@ @,
                                !.equalitiesLength = @ + 1,
                                !.length_insertions1 = st.length_insertions2,
                                !.length_deletions1 = st.length_deletions2,
                                !.length_insertions2 = 0,
                                !.length_deletions2 = 0,
                                !.lastEquality = cur.text,
                                !.pointer = @ + 1])
    ELSE
    LET li2 == IF cur.op = DIFF_INSERT THEN st.length_insertions2 + Len(cur.text)
               ELSE st.length_insertions2
        ld2 == IF cur.op = DIFF_INSERT THEN st.length_deletions2
               ELSE st.length_deletions2 + Len(cur.text)
    IN
    IF /\ st.lastEquality # <<>>
       /\ Len(st.lastEquality) <= Max(st.length_insertions1, st.length_deletions1)
       /\ Len(st.lastEquality) <= Max(li2, ld2)
    THEN
        LET top == st.equalities[st.equalitiesLength - 1]
            \* Duplicate record, then change the second copy to insert.
            d1 == Splice(st.diffs, top, 0, <<Diff(DIFF_DELETE, st.lastEquality)>>)
            d2 == SetAt(d1, top + 1, Diff(DIFF_INSERT, d1[top + 2].text))
            \* Throw away the equality just deleted and the previous one
            \* (equalitiesLength-- twice; it may fall below zero, and the
            \* array then keeps entries at negative indexes).
            n == st.equalitiesLength - 2
            np == IF n > 0 THEN st.equalities[n - 1] ELSE -1
        IN  semanticLoop([diffs |-> d2, pointer |-> np + 1,
                          equalities |-> st.equalities, equalitiesLength |-> n,
                          lastEquality |-> <<>>,
                          length_insertions1 |-> 0, length_deletions1 |-> 0,
                          length_insertions2 |-> 0, length_deletions2 |-> 0,
                          changes |-> TRUE])
    ELSE
        semanticLoop([st EXCEPT !.length_insertions2 = li2,
                                !.length_deletions2 = ld2,
                                !.pointer = @ + 1])

\* "Overlap found.  Insert an equality and trim the surrounding edits."
trimOverlap(ds, pointer, deletion, insertion, overlap) ==
    Splice(ds, pointer - 1, 2,
           <<Diff(ds[pointer].op, Substring(deletion, 0, Len(deletion) - overlap)),
             Diff(DIFF_EQUAL, Substring(insertion, 0, overlap)),
             Diff(ds[pointer + 1].op, SubstringFrom(insertion, overlap))>>)

\* "Reverse overlap found.  Insert an equality and swap and trim the
\* surrounding edits."
trimReverseOverlap(ds, pointer, deletion, insertion, overlap) ==
    Splice(ds, pointer - 1, 2,
           <<Diff(DIFF_INSERT, Substring(insertion, 0, Len(insertion) - overlap)),
             Diff(DIFF_EQUAL, Substring(deletion, 0, overlap)),
             Diff(DIFF_DELETE, SubstringFrom(deletion, overlap))>>)

RECURSIVE overlapLoop(_, _)

\* A deletion followed by an insertion, at pointer - 1 and pointer, with
\* the lengths of their overlaps in both directions.
overlapAt(ds, pointer, deletion, insertion, overlap_length1, overlap_length2) ==
    IF overlap_length1 >= overlap_length2 THEN
        IF overlap_length1 * 2 >= Len(deletion) \/ overlap_length1 * 2 >= Len(insertion)
        THEN overlapLoop(trimOverlap(ds, pointer, deletion, insertion, overlap_length1),
                         pointer + 3)
        ELSE overlapLoop(ds, pointer + 2)
    ELSE
        IF overlap_length2 * 2 >= Len(deletion) \/ overlap_length2 * 2 >= Len(insertion)
        THEN overlapLoop(trimReverseOverlap(ds, pointer, deletion, insertion, overlap_length2),
                         pointer + 3)
        ELSE overlapLoop(ds, pointer + 2)

\* The last while loop of diff_cleanupSemantic: find any overlaps between
\* deletions and insertions, e.g. <del>abcxxx</del><ins>xxxdef</ins>
\* becomes <del>abc</del>xxx<ins>def</ins>.
overlapLoop(ds, pointer) ==
    IF pointer >= Len(ds) THEN ds
    ELSE IF ds[pointer].op = DIFF_DELETE /\ ds[pointer + 1].op = DIFF_INSERT THEN
        overlapAt(ds, pointer, ds[pointer].text, ds[pointer + 1].text,
                  diff_commonOverlap_(ds[pointer].text, ds[pointer + 1].text),
                  diff_commonOverlap_(ds[pointer + 1].text, ds[pointer].text))
    ELSE overlapLoop(ds, pointer + 1)

\* "Normalize the diff": only if the first loop changed something.
semanticNormalize(st) ==
    IF st.changes THEN diff_cleanupMerge(st.diffs) ELSE st.diffs

\* diff_cleanupSemantic: reduce the number of edits by eliminating
\* semantically trivial equalities.
diff_cleanupSemantic(ds) ==
    overlapLoop(
        diff_cleanupSemanticLossless(
            semanticNormalize(
                semanticLoop([diffs |-> ds, pointer |-> 0,
                              equalities |-> [i \in {} |-> 0], equalitiesLength |-> 0,
                              lastEquality |-> <<>>,
                              length_insertions1 |-> 0, length_deletions1 |-> 0,
                              length_insertions2 |-> 0, length_deletions2 |-> 0,
                              changes |-> FALSE]))),
        1)

(* ------------------------- utils/diffUtils ---------------------------- *)

\* A DiffResult.
DiffResult(type, text, index) == [type |-> type, text |-> text, index |-> index]

\* The local variable diffs of createTextDiff and createInlineDiff:
\* dmp.diff_main followed by dmp.diff_cleanupSemantic.  Diff_Timeout is 1.0
\* in both (set explicitly in createTextDiff, the default in
\* createInlineDiff); Diff_EditCost is not read by either routine.
textDiffs(original, corrected, expired) ==
    diff_cleanupSemantic(diff_main(original, corrected, expired))

\* The for loop of createTextDiff over diffs, from position i on.
RECURSIVE createTextDiffLoop(_, _, _)
createTextDiffLoop(ds, i, acc) ==
    IF i > Len(ds) THEN acc
    ELSE
    LET operation == ds[i].op
        text == ds[i].text
    IN
    IF operation = DIFF_EQUAL THEN
        createTextDiffLoop(ds, i + 1,
            [acc EXCEPT !.originalResults = Append(@, DiffResult("equal", text, acc.originalIndex)),
                        !.correctedResults = Append(@, DiffResult("equal", text, acc.correctedIndex)),
                        !.originalIndex = @ + Len(text),
                        !.correctedIndex = @ + Len(text)])
    ELSE IF operation = DIFF_DELETE THEN
        createTextDiffLoop(ds, i + 1,
            [acc EXCEPT !.originalResults = Append(@, DiffResult("delete", text, acc.originalIndex)),
                        !.originalIndex = @ + Len(text),
                        !.changeCount = @ + 1])
    ELSE
        createTextDiffLoop(ds, i + 1,
            [acc EXCEPT !.correctedResults = Append(@, DiffResult("insert", text, acc.correctedIndex)),
                        !.correctedIndex = @ + Len(text),
                        !.changeCount = @ + 1])

\* The locals of createTextDiff and getWordDiff before their for loop.
LoopInit == [originalResults |-> <<>>, correctedResults |-> <<>>,
             originalIndex |-> 0, correctedIndex |-> 0, changeCount |-> 0]

\* ProcessedDiff with hasChanges computed as changeCount >= 0.
ProcessedDiff_AlwaysChanged(acc) ==
    [original |-> acc.originalResults,
     corrected |-> acc.correctedResults,
     hasChanges |-> acc.changeCount >= 0,
     changeCount |-> acc.changeCount]

\* The ProcessedDiff returned by createTextDiff and getWordDiff.
ProcessedDiff(acc) ==
    [original |-> acc.originalResults,
     corrected |-> acc.correctedResults,
     hasChanges |-> acc.changeCount > 0,
     changeCount |-> acc.changeCount]

NotDelete(d) == d.op # DIFF_DELETE

\* createTextDiff whose switch has lost its DIFF_DELETE case.
createTextDiff_NoDeleteCase(ds) ==
    ProcessedDiff(createTextDiffLoop(SelectSeq(ds, NotDelete), 1, LoopInit))

\* createTextDiff that pushes deletions to correctedResults and insertions
\* to originalResults.
createTextDiff_SwappedViews(ds) ==
    LET r == ProcessedDiff(createTextDiffLoop(ds, 1, LoopInit))
    IN  [r EXCEPT !.original = r.corrected, !.corrected = r.original]

\* createTextDiff that advances originalIndex by one per span instead of
\* by text.length.
createTextDiff_IndexPerSpan(ds) ==
    LET r == ProcessedDiff(createTextDiffLoop(ds, 1, LoopInit))
    IN  [r EXCEPT !.original = [i \in DOMAIN r.original |->
                                   [r.original[i] EXCEPT !.index = i - 1]]]

\* createTextDiff(originalText, correctedText) from its local variable diffs on.
createTextDiff(ds) == ProcessedDiff(createTextDiffLoop(ds, 1, LoopInit))

\* String.prototype.split(/(\s+)/): the pieces between the whitespace runs
\* and the runs themselves, alternating; a leading or trailing run leaves an
\* empty piece beside it.
RECURSIVE RunLength(_, _, _)
RunLength(s, from, inWs) ==
    IF from < Len(s) /\ ((s[from + 1] \in Whitespace) = inWs)
    THEN 1 + RunLength(s, from + 1, inWs) ELSE 0

RECURSIVE SplitWhitespace(_)
SplitWhitespace(s) ==
    LET n == RunLength(s, 0, FALSE)
        piece == Substring(s, 0, n)
    IN  IF n = Len(s) THEN <<piece>>
        ELSE LET w == RunLength(s, n, TRUE)
             IN  <<piece, Substring(s, n, n + w)>>
                     \o SplitWhitespace(SubstringFrom(s, n + w))

\* Array.prototype.join(sep).
RECURSIVE Join(_, _)
Join(parts, sep) ==
    IF parts = <<>> THEN <<>>
    ELSE IF Len(parts) = 1 THEN parts[1]
    ELSE parts[1] \o sep \o Join(Tail(parts), sep)

\* text.replace(/\n/g, '').
RECURSIVE StripNewlines(_)
StripNewlines(text) ==
    IF text = <<>> THEN <<>>
    ELSE IF Head(text) = "\n" THEN StripNewlines(Tail(text))
    ELSE <<Head(text)>> \o StripNewlines(Tail(text))

\* originalWordText / correctedWordText of getWordDiff.
wordText(text) == Join(SplitWhitespace(text), <<"\n">>)

\* The local variable diffs of getWordDiff.
wordDiffs(original, corrected, expired) ==
    diff_cleanupSemantic(diff_main(wordText(original), wordText(corrected), expired))

\* The for loop of getWordDiff over diffs, from position i on.
RECURSIVE getWordDiffLoop(_, _, _)
getWordDiffLoop(ds, i, acc) ==
    IF i > Len(ds) THEN acc
    ELSE
    LET operation == ds[i].op
        displayText == StripNewlines(ds[i].text)
    IN
    IF operation = DIFF_EQUAL THEN
        getWordDiffLoop(ds, i + 1,
            [acc EXCEPT !.originalResults =
                            IF displayText # <<>>
                            THEN Append(@, DiffResult("equal", displayText, acc.originalIndex))
                            ELSE @,
                        !.correctedResults =
                            IF displayText # <<>>
                            THEN Append(@, DiffResult("equal", displayText, acc.correctedIndex))
                            ELSE @,
                        !.originalIndex = @ + Len(displayText),
                        !.correctedIndex = @ + Len(displayText)])
    ELSE IF operation = DIFF_DELETE THEN
        IF displayText # <<>> THEN
            getWordDiffLoop(ds, i + 1,
                [acc EXCEPT !.originalResults =
                                Append(@, DiffResult("delete", displayText, acc.originalIndex)),
                            !.originalIndex = @ + Len(displayText),
                            !.changeCount = @ + 1])
        ELSE getWordDiffLoop(ds, i + 1, acc)
    ELSE
        IF displayText # <<>> THEN
            getWordDiffLoop(ds, i + 1,
                [acc EXCEPT !.correctedResults =
                                Append(@, DiffResult("insert", displayText, acc.correctedIndex)),
                            !.correctedIndex = @ + Len(displayText),
                            !.changeCount = @ + 1])
        ELSE getWordDiffLoop(ds, i + 1, acc)

\* getWordDiff that labels the deletions of the original view 'insert'.
getWordDiff_WrongType(ds) ==
    LET r == ProcessedDiff(getWordDiffLoop(ds, 1, LoopInit))
    IN  [r EXCEPT !.original = [i \in DOMAIN r.original |->
                                   IF r.original[i].type = "delete"
                                   THEN [r.original[i] EXCEPT !.type = "insert"]
                                   ELSE r.original[i]]]

\* The operation with its line feeds removed.
StrippedDiff(d) == Diff(d.op, StripNewlines(d.text))

\* getWordDiff without the if (displayText) guards: every operation is
\* pushed, its text stripped of line feeds.
getWordDiff_Unguarded(ds) ==
    ProcessedDiff(createTextDiffLoop([i \in DOMAIN ds |-> StrippedDiff(ds[i])], 1, LoopInit))

\* getWordDiff with changeCount++ moved out of the if (displayText) guards:
\* an insert or delete of line feeds only is counted though it is not pushed.
getWordDiff_CountsDropped(ds) ==
    ProcessedDiff([getWordDiffLoop(ds, 1, LoopInit) EXCEPT
                      !.changeCount = Cardinality({i \in DOMAIN ds : ds[i].op # DIFF_EQUAL})])

\* getWordDiff(originalText, correctedText) from its local variable diffs on.
getWordDiff(ds) == ProcessedDiff(getWordDiffLoop(ds, 1, LoopInit))

\* The for loop of createInlineDiff over diffs, from position i on.
RECURSIVE createInlineDiffLoop(_, _, _, _)
createInlineDiffLoop(ds, i, results, index) ==
    IF i > Len(ds) THEN results
    ELSE
    LET operation == ds[i].op
        text == ds[i].text
        type == IF operation = DIFF_DELETE THEN "delete"
                ELSE IF operation = DIFF_INSERT THEN "insert"
                ELSE "equal"
    IN  createInlineDiffLoop(ds, i + 1, Append(results, DiffResult(type, text, index)),
                             index + Len(text))

\* createInlineDiff with the labels of DIFF_DELETE and DIFF_INSERT exchanged.
createInlineDiff_SwappedTypes(ds) ==
    LET r == createInlineDiffLoop(ds, 1, <<>>, 0)
    IN  [i \in DOMAIN r |->
            IF r[i].type = "delete" THEN [r[i] EXCEPT !.type = "insert"]
            ELSE IF r[i].type = "insert" THEN [r[i] EXCEPT !.type = "delete"]
            ELSE r[i]]

\* createInlineDiff whose switch has lost its DIFF_DELETE case.
createInlineDiff_NoDeleteCase(ds) ==
    createInlineDiffLoop(SelectSeq(ds, NotDelete), 1, <<>>, 0)

\* createInlineDiff(originalText, correctedText) from its local variable diffs on.
createInlineDiff(ds) == createInlineDiffLoop(ds, 1, <<>>, 0)

\* Number of elements of a DiffResult[] of the given type
\* (array.filter(d => d.type === type).length).
CountType(results, type) == Cardinality({i \in DOMAIN results : results[i].type = type})

\* diff.original.reduce((sum, d) => sum + d.text.length, 0).
RECURSIVE TotalLength(_)
TotalLength(results) ==
    IF results = <<>> THEN 0 ELSE Len(Head(results).text) + TotalLength(Tail(results))

\* getDiffStats that leaves the deletions out of changes.
getDiffStats_InsertionsOnly(diff) ==
    LET insertions == CountType(diff.corrected, "insert")
        deletions == CountType(diff.original, "delete")
    IN  [insertions |-> insertions, deletions |-> deletions, changes |-> insertions,
         accuracyHundredths |-> 10000]

\* getDiffStats that counts the delete spans of the corrected-side view.
getDiffStats_DeletionsOfCorrected(diff) ==
    LET insertions == CountType(diff.corrected, "insert")
        deletions == CountType(diff.corrected, "delete")
        changes == insertions + deletions
        totalOriginal == TotalLength(diff.original)
    IN  [insertions |-> insertions, deletions |-> deletions, changes |-> changes,
         accuracyHundredths |->
             IF totalOriginal > 0
             THEN IF totalOriginal - changes <= 0 THEN 0
                  ELSE (2 * 10000 * (totalOriginal - changes) + totalOriginal)
                           \div (2 * totalOriginal)
             ELSE 10000]

\* getDiffStats that truncates accuracy to two decimals (Math.floor in the
\* place of Math.round).
getDiffStats_Truncated(diff) ==
    LET insertions == CountType(diff.corrected, "insert")
        deletions == CountType(diff.original, "delete")
        changes == insertions + deletions
        totalOriginal == TotalLength(diff.original)
    IN  [insertions |-> insertions, deletions |-> deletions, changes |-> changes,
         accuracyHundredths |->
             IF totalOriginal > 0
             THEN IF totalOriginal - changes <= 0 THEN 0
                  ELSE (10000 * (totalOriginal - changes)) \div totalOriginal
             ELSE 10000]

\* getDiffStats(diff).  accuracy is kept in hundredths: the value
\* Math.round(accuracy * 100), which the code then divides by 100.
getDiffStats(diff) ==
    LET insertions == CountType(diff.corrected, "insert")
        deletions == CountType(diff.original, "delete")
        changes == insertions + deletions
        totalOriginal == TotalLength(diff.original)
        accuracyHundredths ==
            IF totalOriginal > 0
            THEN IF totalOriginal - changes <= 0 THEN 0
                 ELSE (2 * 10000 * (totalOriginal - changes) + totalOriginal)
                          \div (2 * totalOriginal)
            ELSE 10000
    IN  [insertions |-> insertions, deletions |-> deletions, changes |-> changes,
         accuracyHundredths |-> accuracyHundredths]

(* ------------------- stores/textCorrectionStore: state ----------------- *)

\* The runs of startProcessing, in the order they are started; run r owns
\* the AbortController r, and currentAbortController = 0 stands for null.
RunIds == 1..MaxRuns

\* A run that has not been started.  paragraphs, i and completedCount are the
\* locals of processDirectText; results is result.data.results of the batch
\* call being handled and k the position of the forEach in progress.
NotStarted ==
    [pc |-> "idle", paragraphs |-> <<>>, i |-> 0, completedCount |-> 0,
     results |-> <<>>, k |-> 0]

\* const initialState: AppState.  Strings are sequences of code units, null
\* is "null" for error and 0 for currentAbortController, and a progress value
\* is kept exactly, as <<numerator, denominator>>.  showAnimation and
\* animationSpeed, which no processing step reads or writes, are left out.
initialState ==
    [inputMethod |-> "direct",
     inputText |-> <<>>,
     googleDocsUrl |-> <<>>,
     isProcessing |-> FALSE,
     processingProgress |-> <<0, 1>>,
     currentParagraphIndex |-> 0,
     paragraphs |-> <<>>,
     isCompleted |-> FALSE,
     error |-> "null",
     currentAbortController |-> 0]

\* The store as create() leaves it: ...initialState, and no run started.
InitStore ==
    /\ inputMethod = initialState.inputMethod
    /\ inputText = initialState.inputText
    /\ googleDocsUrl = initialState.googleDocsUrl
    /\ isProcessing = initialState.isProcessing
    /\ processingProgress = initialState.processingProgress
    /\ currentParagraphIndex = initialState.currentParagraphIndex
    /\ paragraphs = initialState.paragraphs
    /\ isCompleted = initialState.isCompleted
    /\ error = initialState.error
    /\ currentAbortController = initialState.currentAbortController
    /\ runs = [r \in RunIds |-> NotStarted]
    /\ aborted = [r \in RunIds |-> "no"]
    /\ calls = 0

(* --------------------------- state machine ---------------------------- *)

NoResult == [none |-> TRUE]

\* Two input strings within the bounds; nothing has been called yet.
Init ==
    /\ originalText \in Strings
    /\ correctedText \in Strings
    /\ Len(originalText) + Len(correctedText) <= MaxTotal
    /\ called = "none"
    /\ diffs = <<>>
    /\ result = NoResult
    /\ stats = NoResult
    /\ InitStore

\* A call createTextDiff(originalText, correctedText).
CallCreateTextDiff ==
    /\ called = "none"
    /\ \E expired \in BOOLEAN :
          LET ds == textDiffs(originalText, correctedText, expired)
          IN  /\ diffs' = ds
              /\ result' = createTextDiff(ds)
    /\ called' = "createTextDiff"
    /\ UNCHANGED <<originalText, correctedText, stats, storeVars>>

\* A call getWordDiff(originalText, correctedText).
CallGetWordDiff ==
    /\ called = "none"
    /\ \E expired \in BOOLEAN :
          LET ds == wordDiffs(originalText, correctedText, expired)
          IN  /\ diffs' = ds
              /\ result' = getWordDiff(ds)
    /\ called' = "getWordDiff"
    /\ UNCHANGED <<originalText, correctedText, stats, storeVars>>

\* A call createInlineDiff(originalText, correctedText).
CallCreateInlineDiff ==
    /\ called = "none"
    /\ \E expired \in BOOLEAN :
          LET ds == textDiffs(originalText, correctedText, expired)
          IN  /\ diffs' = ds
              /\ result' = createInlineDiff(ds)
    /\ called' = "createInlineDiff"
    /\ UNCHANGED <<originalText, correctedText, stats, storeVars>>

\* A call getDiffStats(result) on the ProcessedDiff of an earlier call.
CallGetDiffStats ==
    /\ called \in {"createTextDiff", "getWordDiff", "given"}
    /\ stats = NoResult
    /\ stats' = getDiffStats(result)
    /\ UNCHANGED <<originalText, correctedText, called, diffs, result, storeVars>>

Next ==
    \/ CallCreateTextDiff
    \/ CallGetWordDiff
    \/ CallCreateInlineDiff
    \/ CallGetDiffStats

Spec == Init /\ [][Next]_vars

\* The strings of n characters over the given code units.
RECURSIVE StringsOver(_, _)
StringsOver(units, n) ==
    IF n = 0 THEN {<<>>}
    ELSE {Append(s, c) : s \in StringsOver(units, n - 1), c \in units}

\* Strings over two code units, for inputs of up to MaxLen characters on
\* each side.
RECURSIVE BinaryStringsOfLen(_)
BinaryStringsOfLen(n) ==
    IF n = 0 THEN {<<>>}
    ELSE {Append(s, c) : s \in BinaryStringsOfLen(n - 1), c \in {"a", "."}}

BinaryStrings == UNION {BinaryStringsOfLen(n) : n \in 0..MaxLen}

\* Two input strings of up to MaxLen characters each; nothing has been
\* called yet.
InitBinary ==
    /\ originalText \in BinaryStrings
    /\ correctedText \in BinaryStrings
    /\ called = "none"
    /\ diffs = <<>>
    /\ result = NoResult
    /\ stats = NoResult
    /\ InitStore

\* The same calls on the longer inputs.
SpecBinary == InitBinary /\ [][Next]_vars

\* The two words "aa aa" as the original, against every corrected text of
\* LongLen characters over the same two code units; nothing has been
\* called yet.
InitLong ==
    /\ originalText = <<"a", "a", " ", "a", "a">>
    /\ correctedText \in StringsOver({"a", " "}, LongLen)
    /\ called = "none"
    /\ diffs = <<>>
    /\ result = NoResult
    /\ stats = NoResult
    /\ InitStore

\* The same calls on these inputs.
SpecLong == InitLong /\ [][Next]_vars

\* Code points as their UTF-16 code units: a letter, and two characters
\* outside the Basic Multilingual Plane that share their high surrogate
\* (as U+1F600 and U+1F601 do).
CodePoints == {<<"a">>, <<"H", "L">>, <<"H", "M">>}

\* The well-formed strings of n code points.
RECURSIVE CodePointStrings(_)
CodePointStrings(n) ==
    IF n = 0 THEN {<<>>}
    ELSE {s \o c : s \in CodePointStrings(n - 1), c \in CodePoints}

\* Two well-formed input strings of up to MaxLen - 1 code points each;
\* nothing has been called yet.
InitAstral ==
    /\ originalText \in UNION {CodePointStrings(n) : n \in 0..(MaxLen - 1)}
    /\ correctedText \in UNION {CodePointStrings(n) : n \in 0..(MaxLen - 1)}
    /\ called = "none"
    /\ diffs = <<>>
    /\ result = NoResult
    /\ stats = NoResult
    /\ InitStore

\* The same calls on inputs with characters outside the Basic Multilingual
\* Plane.
SpecAstral == InitAstral /\ [][Next]_vars

\* Two callers, as on two workers, each with its own call in progress.  In
\* the specification of the two calls every variable maps a caller to what
\* the one-call specifications keep in it; called holds the function and
\* how far the call has come.
Callers == {1, 2}

\* The input pairs of a call.
CallInputs ==
    {p \in BinaryStrings \X BinaryStrings : Len(p[1]) + Len(p[2]) <= MaxCallTotal}

NotCalled == [fn |-> "none", at |-> "start"]

InitTwoCalls ==
    /\ \E p \in [Callers -> CallInputs] :
           /\ originalText = [c \in Callers |-> p[c][1]]
           /\ correctedText = [c \in Callers |-> p[c][2]]
    /\ called = [c \in Callers |-> NotCalled]
    /\ diffs = [c \in Callers |-> <<>>]
    /\ result = [c \in Callers |-> NoResult]
    /\ stats = [c \in Callers |-> NoResult]
    /\ InitStore

\* A call that finds in its local variables what the first caller's
\* invocation left there, as with locals hoisted to module level.
Local_Shared(values, c) == values[1]

\* What a call finds in one of its local variables or parameters: the
\* value of its own invocation.
Local(values, c) == values[c]

\* The locals of every invocation but c's are left alone.
Assign(values, c, v) == [values EXCEPT ![c] = v]

\* Caller c enters fn and runs it up to const diffs = dmp.diff_main(...),
\* on a diff_match_patch instance of its own.
BeginCall(c, fn) ==
    /\ Local(called, c) = NotCalled
    /\ \E expired \in BOOLEAN :
           diffs' = Assign(diffs, c,
                       IF fn = "getWordDiff"
                       THEN diff_main(wordText(Local(originalText, c)),
                                      wordText(Local(correctedText, c)), expired)
                       ELSE diff_main(Local(originalText, c),
                                      Local(correctedText, c), expired))
    /\ called' = Assign(called, c, [fn |-> fn, at |-> "diffed"])
    /\ UNCHANGED <<originalText, correctedText, result, stats, storeVars>>

\* Caller c runs dmp.diff_cleanupSemantic(diffs), which rewrites the array
\* in place.
CleanupCall(c) ==
    /\ Local(called, c).at = "diffed"
    /\ diffs' = Assign(diffs, c, diff_cleanupSemantic(Local(diffs, c)))
    /\ called' = Assign(called, c, [Local(called, c) EXCEPT !.at = "cleaned"])
    /\ UNCHANGED <<originalText, correctedText, result, stats, storeVars>>

\* Caller c runs the for loop over diffs and returns.
ReturnCall(c) ==
    /\ Local(called, c).at = "cleaned"
    /\ result' = Assign(result, c,
                     IF Local(called, c).fn = "createTextDiff"
                     THEN createTextDiff(Local(diffs, c))
                     ELSE IF Local(called, c).fn = "getWordDiff"
                     THEN getWordDiff(Local(diffs, c))
                     ELSE createInlineDiff(Local(diffs, c)))
    /\ called' = Assign(called, c, [Local(called, c) EXCEPT !.at = "returned"])
    /\ UNCHANGED <<originalText, correctedText, diffs, stats, storeVars>>

\* Caller c hands the ProcessedDiff it got to getDiffStats.
StatsCall(c) ==
    /\ Local(called, c).at = "returned"
    /\ Local(called, c).fn \in {"createTextDiff", "getWordDiff"}
    /\ Local(stats, c) = NoResult
    /\ stats' = Assign(stats, c, getDiffStats(Local(result, c)))
    /\ UNCHANGED <<originalText, correctedText, called, diffs, result, storeVars>>

NextTwoCalls ==
    \E c \in Callers :
        \/ BeginCall(c, "createTextDiff")
        \/ BeginCall(c, "getWordDiff")
        \/ BeginCall(c, "createInlineDiff")
        \/ CleanupCall(c)
        \/ ReturnCall(c)
        \/ StatsCall(c)

\* Two calls on input pairs of their own, their steps interleaved in any
\* order.
SpecTwoCalls == InitTwoCalls /\ [][NextTwoCalls]_vars

\* The values an untyped caller may pass at run time, where the parameter
\* types are erased: null, undefined, numbers and strings, each with its
\* JavaScript type t and value v.
JsValue(t, v) == [t |-> t, v |-> v]

JsValues ==
    {JsValue("null", 0), JsValue("undefined", 0)}
        \cup {JsValue("number", n) : n \in {0, 5}}
        \cup {JsValue("string", str) : str \in {<<>>, <<"5">>, <<"a">>, <<"a", "5">>}}

IsString(x) == x.t = "string"

\* x == null, true of null and of undefined.
Nullish(x) == x.t \in {"null", "undefined"}

\* The decimal digits of a number below ten.
Decimal(n) == << <<"0", "1", "2", "3", "4", "5", "6", "7", "8", "9">>[n + 1] >>

\* ToNumber(str) = n for a string of no character (0) or of one digit.
StringIsNumber(str, n) == (str = <<>> /\ n = 0) \/ (n \in 0..9 /\ str = Decimal(n))

\* x == y, the loose equality diff_main tests its two texts with.
LooseEquals(x, y) ==
    IF x.t = y.t THEN x.v = y.v
    ELSE IF Nullish(x) /\ Nullish(y) THEN TRUE
    ELSE IF x.t = "number" /\ y.t = "string" THEN StringIsNumber(y.v, x.v)
    ELSE IF x.t = "string" /\ y.t = "number" THEN StringIsNumber(x.v, y.v)
    ELSE FALSE

\* if (x): neither null, undefined, 0 nor the empty string.
Truthy(x) ==
    IF Nullish(x) THEN FALSE
    ELSE IF x.t = "number" THEN x.v # 0
    ELSE x.v # <<>>

\* The outcome of a call: the error it threw, or "none" and what it
\* returned.
Threw(name) == [threw |-> name, value |-> <<>>]
Returned(value) == [threw |-> "none", value |-> value]

\* dmp.diff_main and dmp.diff_cleanupSemantic on texts that are not both
\* strings.  diff_main throws Error('Null input. (diff_main)') on null or
\* undefined, returns at once when text1 == text2, and otherwise throws a
\* TypeError at the first charAt or substring of the text that is no
\* string.  diff_cleanupSemantic leaves a single equality alone.
diffsOfNonStrings(x, y) ==
    IF Nullish(x) \/ Nullish(y) THEN Threw("Error")
    ELSE IF LooseEquals(x, y)
    THEN Returned(IF Truthy(x) THEN <<Diff(DIFF_EQUAL, x)>> ELSE <<>>)
    ELSE Threw("TypeError")

\* The spans the for loops push for such an alignment: none, or one
\* equal span at index 0 whose text is the value itself (its length is
\* undefined, which only the index after it would show).
spansOfNonStrings(ds) ==
    IF ds = <<>> THEN <<>> ELSE <<DiffResult("equal", ds[1].text, 0)>>

\* createTextDiff(x, y) when x or y is no string.
createTextDiffOfNonStrings(x, y) ==
    IF diffsOfNonStrings(x, y).threw # "none" THEN diffsOfNonStrings(x, y)
    ELSE Returned([original |-> spansOfNonStrings(diffsOfNonStrings(x, y).value),
                   corrected |-> spansOfNonStrings(diffsOfNonStrings(x, y).value),
                   hasChanges |-> FALSE,
                   changeCount |-> 0])

\* createInlineDiff(x, y) when x or y is no string.
createInlineDiffOfNonStrings(x, y) ==
    IF diffsOfNonStrings(x, y).threw # "none" THEN diffsOfNonStrings(x, y)
    ELSE Returned(spansOfNonStrings(diffsOfNonStrings(x, y).value))

\* Two arguments of any of these values; nothing has been called yet.
InitAnyValue ==
    /\ originalText \in JsValues
    /\ correctedText \in JsValues
    /\ called = "none"
    /\ diffs = <<>>
    /\ result = NoResult
    /\ stats = NoResult
    /\ InitStore

\* A call createTextDiff(originalText, correctedText) by an untyped caller.
CallCreateTextDiffAnyValue ==
    /\ called = "none"
    /\ IF IsString(originalText) /\ IsString(correctedText)
       THEN \E expired \in BOOLEAN :
               result' = Returned(createTextDiff(
                             textDiffs(originalText.v, correctedText.v, expired)))
       ELSE result' = createTextDiffOfNonStrings(originalText, correctedText)
    /\ called' = "createTextDiff"
    /\ UNCHANGED <<originalText, correctedText, diffs, stats, storeVars>>

\* A call getWordDiff(originalText, correctedText) by an untyped caller:
\* split is no method of null, undefined or a number.
CallGetWordDiffAnyValue ==
    /\ called = "none"
    /\ IF IsString(originalText) /\ IsString(correctedText)
       THEN \E expired \in BOOLEAN :
               result' = Returned(getWordDiff(
                             wordDiffs(originalText.v, correctedText.v, expired)))
       ELSE result' = Threw("TypeError")
    /\ called' = "getWordDiff"
    /\ UNCHANGED <<originalText, correctedText, diffs, stats, storeVars>>

\* A call createInlineDiff(originalText, correctedText) by an untyped caller.
CallCreateInlineDiffAnyValue ==
    /\ called = "none"
    /\ IF IsString(originalText) /\ IsString(correctedText)
       THEN \E expired \in BOOLEAN :
               result' = Returned(createInlineDiff(
                             textDiffs(originalText.v, correctedText.v, expired)))
       ELSE result' = createInlineDiffOfNonStrings(originalText, correctedText)
    /\ called' = "createInlineDiff"
    /\ UNCHANGED <<originalText, correctedText, diffs, stats, storeVars>>

NextAnyValue ==
    \/ CallCreateTextDiffAnyValue
    \/ CallGetWordDiffAnyValue
    \/ CallCreateInlineDiffAnyValue

\* The diff functions called with arguments of any run-time type.
SpecAnyValue == InitAnyValue /\ [][NextAnyValue]_vars

\* The spans a view of a ProcessedDiff built by a caller may hold: any of
\* the three kinds, a text of one or two characters.
GivenSpans ==
    {DiffResult(type, text, 0) : type \in {"equal", "insert", "delete"},
                                 text \in {<<"a">>, <<"a", ".">>}}

RECURSIVE GivenViewsOfLen(_)
GivenViewsOfLen(n) ==
    IF n = 0 THEN {<<>>}
    ELSE {Append(v, d) : v \in GivenViewsOfLen(n - 1), d \in GivenSpans}

GivenViews == UNION {GivenViewsOfLen(n) : n \in 0..MaxSpans}

\* getDiffStats is exported: a caller may hand it any value of type
\* ProcessedDiff, not only one that createTextDiff or getWordDiff built.
InitGiven ==
    /\ originalText = <<>>
    /\ correctedText = <<>>
    /\ called = "given"
    /\ diffs = <<>>
    /\ \E o \in GivenViews, c \in GivenViews, n \in 0..MaxSpans :
           result = [original |-> o, corrected |-> c,
                     hasChanges |-> n > 0, changeCount |-> n]
    /\ stats = NoResult
    /\ InitStore

NextGiven == CallGetDiffStats

\* getDiffStats called on an arbitrary ProcessedDiff.
SpecGiven == InitGiven /\ [][NextGiven]_vars

(* --------------------------- utils/textProcessor ----------------------- *)

\* const maxParagraphLength = 500 of splitIntoParagraphs and the default of
\* the parameter maxLength of validateTextInput.
maxParagraphLength == 500
maxLength == 10000

\* String.prototype.trim().
Trim(s) ==
    IF \A i \in 1..Len(s) : s[i] \in Whitespace THEN <<>>
    ELSE SubSeq(s,
                CHOOSE i \in 1..Len(s) :
                    s[i] \notin Whitespace /\ \A j \in 1..(i - 1) : s[j] \in Whitespace,
                CHOOSE i \in 1..Len(s) :
                    s[i] \notin Whitespace /\ \A j \in (i + 1)..Len(s) : s[j] \in Whitespace)

\* text.split(/\n\s*\n/).  A separator starts at the first line feed that
\* white space alone parts from a later line feed, and ends, \s* being
\* greedy, at the last line feed that white space alone parts from it.
RECURSIVE SplitBlankLines(_)
SplitBlankLines(s) ==
    LET Closes(i, j) == s[j] = "\n" /\ \A k \in i..j : s[k] \in Whitespace
        starts == {i \in 1..Len(s) :
                      s[i] = "\n" /\ \E j \in (i + 1)..Len(s) : Closes(i, j)}
    IN  IF starts = {} THEN <<s>>
        ELSE LET i == CHOOSE x \in starts : \A y \in starts : x <= y
                 j == CHOOSE x \in (i + 1)..Len(s) :
                          Closes(i, x) /\ \A y \in (x + 1)..Len(s) : ~Closes(i, y)
             IN  <<SubSeq(s, 1, i - 1)>> \o SplitBlankLines(SubSeq(s, j + 1, Len(s)))

\* paragraph.split(/(?<=[。！？])\s*/), the sentence-ending marks written
\* ".": a cut after every such mark that is not the last code unit, the
\* white space that follows the mark dropped.
RECURSIVE SplitSentences(_)
SplitSentences(s) ==
    LET ends == {i \in 1..(Len(s) - 1) : s[i] = "."}
    IN  IF ends = {} THEN <<s>>
        ELSE LET i == CHOOSE x \in ends : \A y \in ends : x <= y
                 rest == SubSeq(s, i + 1, Len(s))
                 inked == {j \in 1..Len(rest) : rest[j] \notin Whitespace}
                 next == IF inked = {} THEN Len(rest) + 1
                         ELSE CHOOSE x \in inked : \A y \in inked : x <= y
             IN  <<SubSeq(s, 1, i)>> \o SplitSentences(SubSeq(rest, next, Len(rest)))

\* The loop of splitIntoParagraphs over the sentences of a paragraph that
\* is longer than maxParagraphLength, and the push that follows it.
RECURSIVE PackSentences(_, _, _)
PackSentences(sentences, currentParagraph, res) ==
    IF sentences = <<>>
    THEN IF currentParagraph # <<>> THEN Append(res, currentParagraph) ELSE res
    ELSE IF Len(currentParagraph) + Len(Head(sentences)) <= maxParagraphLength
    THEN PackSentences(Tail(sentences), currentParagraph \o Head(sentences), res)
    ELSE PackSentences(Tail(sentences), Head(sentences),
                       IF currentParagraph # <<>> THEN Append(res, currentParagraph)
                       ELSE res)

\* splitIntoParagraphs(text).
splitIntoParagraphs(text) ==
    IF Trim(text) = <<>> THEN <<>>
    ELSE LET NonEmpty(p) == Len(p) > 0
             pieces == SplitBlankLines(text)
             trimmed == SelectSeq([n \in DOMAIN pieces |-> Trim(pieces[n])], NonEmpty)
         IN  Concat([n \in DOMAIN trimmed |->
                        IF Len(trimmed[n]) <= maxParagraphLength THEN <<trimmed[n]>>
                        ELSE PackSentences(SplitSentences(trimmed[n]), <<>>, <<>>)])

\* createParagraphs(texts); the id `paragraph-${index + 1}` is kept as the
\* number index + 1.
createParagraphs(texts) ==
    [n \in DOMAIN texts |->
        [id |-> n, text |-> texts[n], corrections |-> <<>>, status |-> "pending"]]

\* validateTextInput without the test of the length.
validateTextInput_NoLimit(text) ==
    IF \A i \in 1..Len(text) : text[i] \in Whitespace
    THEN [isValid |-> FALSE, error |-> "Please enter the text to correct"]
    ELSE [isValid |-> TRUE]

\* validateTextInput(text); the two messages are written in English.
validateTextInput(text) ==
    IF Trim(text) = <<>>
    THEN [isValid |-> FALSE, error |-> "Please enter the text to correct"]
    ELSE IF Len(text) > maxLength
    THEN [isValid |-> FALSE, error |-> "Text length exceeds the limit (10000 characters)"]
    ELSE [isValid |-> TRUE]

\* The prefix a Google Docs sharing URL has up to the document id.
GoogleDocsPrefix ==
    <<"h", "t", "t", "p", "s", ":", "/", "/", "d", "o", "c", "s", ".", "g", "o",
      "o", "g", "l", "e", ".", "c", "o", "m", "/", "d", "o", "c", "u", "m", "e",
      "n", "t", "/", "d", "/">>

\* validateGoogleDocsUrl(url): googleDocsPattern is the prefix followed by at
\* least one code unit of [a-zA-Z0-9-_].
validateGoogleDocsUrl(url) ==
    IF Trim(url) = <<>>
    THEN [isValid |-> FALSE, error |-> "Please enter a Google Docs URL"]
    ELSE IF ~(/\ StartsWith(url, GoogleDocsPrefix)
              /\ Len(url) > Len(GoogleDocsPrefix)
              /\ url[Len(GoogleDocsPrefix) + 1] \in AlphaNumeric \cup {"-", "_"})
    THEN [isValid |-> FALSE, error |-> "Please enter a valid Google Docs sharing URL"]
    ELSE [isValid |-> TRUE]

(* --------------------- components/ProgressIndicator -------------------- *)

\* const processingStages.
processingStages ==
    <<[key |-> "initializing", minProgress |-> 0, maxProgress |-> 10],
      [key |-> "parsing", minProgress |-> 10, maxProgress |-> 25],
      [key |-> "processing", minProgress |-> 25, maxProgress |-> 90],
      [key |-> "completing", minProgress |-> 90, maxProgress |-> 100]>>

\* The stage the effect on [progress] hands to setCurrentStage: the first
\* stage whose range holds progress, the last stage when none does.
currentStage(progress) ==
    LET Holds(n) == /\ progress[1] >= processingStages[n].minProgress * progress[2]
                    /\ progress[1] <= processingStages[n].maxProgress * progress[2]
    IN  IF \E n \in DOMAIN processingStages : Holds(n)
        THEN processingStages[CHOOSE n \in DOMAIN processingStages :
                                  Holds(n) /\ \A m \in 1..(n - 1) : ~Holds(m)]
        ELSE processingStages[Len(processingStages)]

(* ------------------ stores/textCorrectionStore: actions ---------------- *)

\* const batchSize = 3 of processDirectText.
batchSize == 3

\* The code units n times over.
Repeat(units, n) == [i \in 1..(n * Len(units)) |-> units[((i - 1) % Len(units)) + 1]]

\* A text of MaxParagraphs short paragraphs.
ShortText == SubSeq(Repeat(<<"\n", "\n", "a">>, MaxParagraphs), 3, 3 * MaxParagraphs)

\* A text of two paragraphs: a single sentence longer than
\* maxParagraphLength, and a sentence of maxParagraphLength code units
\* followed by a second sentence, which splitIntoParagraphs cuts in two.
LongText ==
    Repeat(<<"a">>, maxParagraphLength + 1) \o <<"\n", " ", "\n">>
        \o Repeat(<<"a">>, maxParagraphLength - 1) \o <<".", " ", "a", "a">>

\* The texts a user submits: ShortText, LongText and a text longer than
\* maxLength; the blank text is the initial one.
InputTexts == {ShortText, LongText, Repeat(<<"a">>, maxLength + 1)}

\* The URL a user enters: a sharing URL; the blank URL is the initial one.
GoogleDocsUrls == {GoogleDocsPrefix \o <<"a", "-", "_">>}

\* What the promise of apiService.importGoogleDoc settles to: rejected with
\* an Error (makeRequest throws on a timeout, a network failure or an HTTP
\* error status), or resolved with a GoogleDocsImport.
ImportResponses ==
    {[kind |-> "rejected", message |-> "Request timeout"],
     [kind |-> "resolved", success |-> FALSE, content |-> <<>>],
     [kind |-> "resolved", success |-> TRUE, content |-> <<>>],
     [kind |-> "resolved", success |-> TRUE, content |-> ShortText]}

\* The results a BatchProcessingResult may hold for a batch: an entry for
\* each of its paragraphs, in order, or for all but the last; the entries of
\* one response are alike, of status error, of status completed without
\* corrections, or of status completed with one correction.
BatchResults(batch) ==
    LET Entry(id, kind) ==
            IF kind = "error" THEN [paragraphId |-> id, status |-> "error"]
            ELSE IF kind = "completed" THEN [paragraphId |-> id, status |-> "completed"]
            ELSE [paragraphId |-> id, status |-> "completed",
                  corrections |-> <<[original |-> <<"a">>, corrected |-> <<"b">>]>>]
    IN  {[n \in 1..m |-> Entry(batch[n], kind)] :
            m \in {Len(batch) - 1, Len(batch)},
            kind \in {"error", "completed", "corrected"}}

\* What the promise of apiService.correctParagraphs(batchData) settles to.
BatchResponses(batch) ==
    {[kind |-> "rejected"], [kind |-> "resolved", success |-> FALSE, results |-> <<>>]}
        \cup {[kind |-> "resolved", success |-> TRUE, results |-> rs] :
                 rs \in BatchResults(batch)}

\* get(): the fields of the state.
state ==
    <<inputMethod, inputText, googleDocsUrl, isProcessing, processingProgress,
      currentParagraphIndex, paragraphs, isCompleted, error, currentAbortController>>

\* set(partial): the fields of partial replace those of the state.
set(partial) ==
    LET Merged(key, current) == IF key \in DOMAIN partial THEN partial[key] ELSE current
    IN  /\ inputMethod' = Merged("inputMethod", inputMethod)
        /\ inputText' = Merged("inputText", inputText)
        /\ googleDocsUrl' = Merged("googleDocsUrl", googleDocsUrl)
        /\ isProcessing' = Merged("isProcessing", isProcessing)
        /\ processingProgress' = Merged("processingProgress", processingProgress)
        /\ currentParagraphIndex' = Merged("currentParagraphIndex", currentParagraphIndex)
        /\ paragraphs' = Merged("paragraphs", paragraphs)
        /\ isCompleted' = Merged("isCompleted", isCompleted)
        /\ error' = Merged("error", error)
        /\ currentAbortController' = Merged("currentAbortController", currentAbortController)

\* state.currentAbortController.abort(), if there is one, called by the
\* named store action.
abort(by) ==
    aborted' = IF currentAbortController # 0
               THEN [aborted EXCEPT ![currentAbortController] =
                        IF @ = "no" THEN by ELSE @]
               ELSE aborted

\* JavaScript runs a handler, and an async function between two awaits, to
\* the end before it starts another: while a run is between two awaits no
\* other handler or continuation runs.
Busy ==
    \E r \in RunIds :
        runs[r].pc \notin {"idle", "importing", "correcting", "waiting",
                           "rejectedUrl", "rejectedText", "failed", "completed"}

\* A call of a store action by the user interface: between two stretches of
\* the runs, and one of at most MaxCalls.  The store does not use the
\* variables of the diff utilities.
UserCall ==
    /\ ~Busy
    /\ calls < MaxCalls
    /\ calls' = calls + 1
    /\ UNCHANGED <<originalText, correctedText, called, diffs, result, stats>>

\* Run r goes on at pc.
Goto(r, pc) == runs' = [runs EXCEPT ![r].pc = pc]

\* updateParagraphStatus(id, status): the paragraphs it hands to set.
updateParagraphStatus(id, status) ==
    [n \in DOMAIN paragraphs |->
        IF paragraphs[n].id = id THEN [paragraphs[n] EXCEPT !.status = status]
        ELSE paragraphs[n]]

\* updateParagraphCorrections(id, corrections): the paragraphs it hands to
\* set.  Replace is text.replace(original, corrected), which replaces the
\* first occurrence, and Reduce the corrections.reduce over p.text.
updateParagraphCorrections(id, corrections) ==
    LET Replace(text, original, corrected) ==
            LET At(i) == SubSeq(text, i + 1, i + Len(original)) = original
                places == 0..(Len(text) - Len(original))
            IN  IF \E i \in places : At(i)
                THEN LET i == CHOOSE x \in places : At(x) /\ \A y \in 0..(x - 1) : ~At(y)
                     IN  SubSeq(text, 1, i) \o corrected
                             \o SubSeq(text, i + Len(original) + 1, Len(text))
                ELSE text
        RECURSIVE Reduce(_, _)
        Reduce(text, rest) ==
            IF rest = <<>> THEN text
            ELSE Reduce(Replace(text, Head(rest).original, Head(rest).corrected),
                        Tail(rest))
    IN  [n \in DOMAIN paragraphs |->
            IF paragraphs[n].id = id
            THEN [f \in DOMAIN paragraphs[n] \cup {"corrections", "correctedText"} |->
                     IF f = "corrections" THEN corrections
                     ELSE IF f = "correctedText"
                     THEN Reduce(paragraphs[n].text, corrections)
                     ELSE paragraphs[n][f]]
            ELSE paragraphs[n]]

setInputMethod(method) ==
    /\ UserCall
    /\ set([inputMethod |-> method])
    /\ UNCHANGED <<runs, aborted>>

setInputText(text) ==
    /\ UserCall
    /\ set([inputText |-> text])
    /\ UNCHANGED <<runs, aborted>>

setGoogleDocsUrl(url) ==
    /\ UserCall
    /\ set([googleDocsUrl |-> url])
    /\ UNCHANGED <<runs, aborted>>

\* resetState().
resetState ==
    /\ UserCall
    /\ abort("resetState")
    /\ set(initialState)
    /\ UNCHANGED runs

\* cancelProcessing().
cancelProcessing ==
    /\ UserCall
    /\ abort("cancelProcessing")
    /\ set([isProcessing |-> FALSE,
            processingProgress |-> <<0, 1>>,
            currentAbortController |-> 0,
            error |-> "Processing cancelled by user"])
    /\ UNCHANGED runs

\* startProcessing(), as run r, up to its call of processWithGoogleDocs or
\* processDirectText.  What follows the await is a console.log; its catch
\* block is reached from processWithGoogleDocs alone.
startProcessing(r) ==
    /\ UserCall
    /\ runs[r].pc = "idle"
    /\ \A q \in 1..(r - 1) : runs[q].pc # "idle"
    /\ abort("startProcessing")
    /\ set([error |-> "null", currentAbortController |-> r])
    /\ Goto(r, IF inputMethod = "google-docs" THEN "processWithGoogleDocs"
               ELSE "processDirectText")

\* processWithGoogleDocs() of run r, one disjunct for each stretch between
\* two set calls; the last is the continuation after
\* await apiService.importGoogleDoc(googleDocsUrl), whose throw ends in the
\* catch block of startProcessing.
processWithGoogleDocs(r) ==
    \/ /\ runs[r].pc = "processWithGoogleDocs"
       /\ IF validateGoogleDocsUrl(googleDocsUrl).isValid
          THEN /\ set([isProcessing |-> TRUE, processingProgress |-> <<0, 1>>])
               /\ Goto(r, "import")
          ELSE /\ set([error |-> validateGoogleDocsUrl(googleDocsUrl).error])
               /\ Goto(r, "rejectedUrl")
       /\ UNCHANGED <<aborted, calls, originalText, correctedText, called, diffs,
                      result, stats>>
    \/ /\ runs[r].pc = "import"
       /\ set([processingProgress |-> <<10, 1>>])
       /\ Goto(r, "importing")
       /\ UNCHANGED <<aborted, calls, originalText, correctedText, called, diffs,
                      result, stats>>
    \/ /\ runs[r].pc = "importing"
       /\ ~Busy
       /\ \E importResult \in ImportResponses :
              IF importResult.kind = "resolved" /\ importResult.success
              THEN /\ set([inputText |-> importResult.content])
                   /\ Goto(r, "processDirectText")
              ELSE /\ set([error |->
                               IF importResult.kind = "resolved"
                               THEN "Failed to import Google Docs"
                               ELSE IF importResult.message = "Request timeout"
                               THEN "Google Docs request timed out"
                               ELSE importResult.message,
                           isProcessing |-> FALSE,
                           processingProgress |-> <<0, 1>>,
                           currentAbortController |-> 0])
                   /\ Goto(r, "failed")
       /\ UNCHANGED <<aborted, calls, originalText, correctedText, called, diffs,
                      result, stats>>

\* The batch that starts at position i of the local paragraphs,
\* paragraphs.slice(i, i + batchSize); of a local paragraph the run keeps
\* the id, the one field the code reads after the call of set.
Batch(run) ==
    SubSeq(run.paragraphs, run.i + 1, Min(run.i + batchSize, Len(run.paragraphs)))

\* Where processDirectText goes on after a batch: the 500 ms pause before
\* the next one, or the set that marks the run completed.
AfterBatch(run) ==
    IF run.i + batchSize < Len(run.paragraphs) THEN "waiting" ELSE "complete"

\* processDirectText() of run r, one disjunct for each stretch between two
\* set calls.
processDirectText(r) ==
    \/ /\ runs[r].pc = "processDirectText"
       /\ IF validateTextInput(inputText).isValid
          THEN /\ set([isProcessing |-> TRUE,
                       processingProgress |-> <<0, 1>>,
                       currentParagraphIndex |-> 0])
               /\ Goto(r, "split")
          ELSE /\ set([error |-> validateTextInput(inputText).error])
               /\ Goto(r, "rejectedText")
       /\ UNCHANGED <<aborted, calls, originalText, correctedText, called, diffs,
                      result, stats>>
    \/ /\ runs[r].pc = "split"
       /\ set([paragraphs |-> createParagraphs(splitIntoParagraphs(inputText)),
               processingProgress |-> <<20, 1>>])
       /\ runs' = [runs EXCEPT ![r] =
                      [@ EXCEPT !.paragraphs = [n \in DOMAIN splitIntoParagraphs(inputText) |->
                                                   createParagraphs(splitIntoParagraphs(inputText))[n].id],
                                !.i = 0,
                                !.completedCount = 0,
                                !.k = 0,
                                !.pc = IF splitIntoParagraphs(inputText) = <<>>
                                       THEN "complete" ELSE "markProcessing"]]
       /\ UNCHANGED <<aborted, calls, originalText, correctedText, called, diffs,
                      result, stats>>
    \/ /\ runs[r].pc = "markProcessing"
       /\ set([paragraphs |->
                  updateParagraphStatus(Batch(runs[r])[runs[r].k + 1], "processing")])
       /\ runs' = [runs EXCEPT ![r] =
                      IF runs[r].k + 1 < Len(Batch(runs[r]))
                      THEN [@ EXCEPT !.k = @ + 1]
                      ELSE [@ EXCEPT !.k = 0, !.pc = "call"]]
       /\ UNCHANGED <<aborted, calls, originalText, correctedText, called, diffs,
                      result, stats>>
    \/ /\ runs[r].pc = "call"
       /\ set([currentParagraphIndex |-> runs[r].i])
       /\ Goto(r, "correcting")
       /\ UNCHANGED <<aborted, calls, originalText, correctedText, called, diffs,
                      result, stats>>
    \/ /\ runs[r].pc = "correcting"
       /\ ~Busy
       /\ \E response \in BatchResponses(Batch(runs[r])) :
              runs' = [runs EXCEPT ![r] =
                          IF response.kind = "rejected" \/ ~response.success
                          THEN [@ EXCEPT !.k = 0, !.pc = "markError"]
                          ELSE [@ EXCEPT !.k = 0, !.results = response.results,
                                         !.pc = IF response.results = <<>>
                                                THEN "progress" ELSE "result"]]
       /\ UNCHANGED state
       /\ UNCHANGED <<aborted, calls, originalText, correctedText, called, diffs,
                      result, stats>>
    \/ /\ runs[r].pc = "result"
       /\ set([paragraphs |->
                  updateParagraphStatus(
                      runs[r].results[runs[r].k + 1].paragraphId,
                      IF runs[r].results[runs[r].k + 1].status = "completed"
                      THEN "completed" ELSE "error")])
       /\ runs' = [runs EXCEPT ![r] =
                      IF /\ runs[r].results[runs[r].k + 1].status = "completed"
                         /\ "corrections" \in DOMAIN runs[r].results[runs[r].k + 1]
                      THEN [@ EXCEPT !.pc = "corrections"]
                      ELSE IF runs[r].k + 1 < Len(runs[r].results)
                      THEN [@ EXCEPT !.k = @ + 1]
                      ELSE [@ EXCEPT !.k = 0, !.results = <<>>, !.pc = "progress"]]
       /\ UNCHANGED <<aborted, calls, originalText, correctedText, called, diffs,
                      result, stats>>
    \/ /\ runs[r].pc = "corrections"
       /\ set([paragraphs |->
                  updateParagraphCorrections(
                      runs[r].results[runs[r].k + 1].paragraphId,
                      runs[r].results[runs[r].k + 1].corrections)])
       /\ runs' = [runs EXCEPT ![r] =
                      IF runs[r].k + 1 < Len(runs[r].results)
                      THEN [@ EXCEPT !.k = @ + 1, !.pc = "result"]
                      ELSE [@ EXCEPT !.k = 0, !.results = <<>>, !.pc = "progress"]]
       /\ UNCHANGED <<aborted, calls, originalText, correctedText, called, diffs,
                      result, stats>>
    \/ /\ runs[r].pc = "progress"
       /\ set([processingProgress |->
                  <<20 * Len(runs[r].paragraphs)
                        + (runs[r].completedCount + Len(Batch(runs[r]))) * 70,
                    Len(runs[r].paragraphs)>>])
       /\ runs' = [runs EXCEPT ![r] =
                      [@ EXCEPT !.completedCount = @ + Len(Batch(runs[r])),
                                !.pc = AfterBatch(runs[r])]]
       /\ UNCHANGED <<aborted, calls, originalText, correctedText, called, diffs,
                      result, stats>>
    \/ /\ runs[r].pc = "markError"
       /\ set([paragraphs |->
                  updateParagraphStatus(Batch(runs[r])[runs[r].k + 1], "error")])
       /\ runs' = [runs EXCEPT ![r] =
                      IF runs[r].k + 1 < Len(Batch(runs[r]))
                      THEN [@ EXCEPT !.k = @ + 1]
                      ELSE [@ EXCEPT !.k = 0, !.pc = AfterBatch(runs[r])]]
       /\ UNCHANGED <<aborted, calls, originalText, correctedText, called, diffs,
                      result, stats>>
    \/ /\ runs[r].pc = "waiting"
       /\ ~Busy
       /\ runs' = [runs EXCEPT ![r] =
                      [@ EXCEPT !.i = @ + batchSize, !.k = 0, !.pc = "markProcessing"]]
       /\ UNCHANGED state
       /\ UNCHANGED <<aborted, calls, originalText, correctedText, called, diffs,
                      result, stats>>
    \/ /\ runs[r].pc = "complete"
       /\ set([isCompleted |-> TRUE,
               isProcessing |-> FALSE,
               processingProgress |-> <<100, 1>>,
               currentAbortController |-> 0])
       /\ runs' = [runs EXCEPT ![r] = [NotStarted EXCEPT !.pc = "completed"]]
       /\ UNCHANGED <<aborted, calls, originalText, correctedText, called, diffs,
                      result, stats>>

\* The store as created; of the diff utilities, which the store does not
\* use, no function has been called.
InitStoreAlone ==
    /\ originalText = <<>>
    /\ correctedText = <<>>
    /\ called = "none"
    /\ diffs = <<>>
    /\ result = NoResult
    /\ stats = NoResult
    /\ InitStore

NextStore ==
    \/ \E method \in {"direct", "google-docs"} : setInputMethod(method)
    \/ \E text \in InputTexts : setInputText(text)
    \/ \E url \in GoogleDocsUrls : setGoogleDocsUrl(url)
    \/ resetState
    \/ cancelProcessing
    \/ \E r \in RunIds : startProcessing(r)
    \/ \E r \in RunIds : processWithGoogleDocs(r)
    \/ \E r \in RunIds : processDirectText(r)

\* The store under every sequence of its actions and of the responses of
\* the backend.
SpecStore == InitStoreAlone /\ [][NextStore]_vars

(* ------------------------------ claims -------------------------------- *)

\* The texts of the spans of a view, concatenated in order.
RECURSIVE SpanText(_)
SpanText(view) == IF view = <<>> THEN <<>> ELSE Head(view).text \o SpanText(Tail(view))

\* The kinds and texts of the spans of a view, in order.
KindsAndTexts(view) == [i \in DOMAIN view |-> <<view[i].type, view[i].text>>]

\* Number of insert and delete operations of an alignment.
EditCount(ds) == Cardinality({i \in DOMAIN ds : ds[i].op # DIFF_EQUAL})

IsProcessedDiff == called \in {"createTextDiff", "getWordDiff"}

\* C1: character-mode round trip.  After createTextDiff(a, b) the texts of
\* the original-side view concatenate to a and those of the corrected-side
\* view concatenate to b.
C1_CharRoundTrip ==
    called = "createTextDiff" =>
        /\ SpanText(result.original) = originalText
        /\ SpanText(result.corrected) = correctedText

\* A createTextDiff call on different inputs whose alignment holds all three
\* kinds of operation.
C1_Witness ==
    /\ called = "createTextDiff"
    /\ originalText # correctedText
    /\ \E i \in DOMAIN result.original : result.original[i].type = "delete"
    /\ \E i \in DOMAIN result.corrected : result.corrected[i].type = "insert"
    /\ \E i \in DOMAIN result.original : result.original[i].type = "equal"
    /\ SpanText(result.original) = originalText
    /\ SpanText(result.corrected) = correctedText

\* C2: word-mode round trip.  After getWordDiff(a, b) the texts of the
\* original-side view concatenate to a and those of the corrected-side view
\* to b, for all inputs, line feeds and whitespace runs included.
C2_WordRoundTrip ==
    called = "getWordDiff" =>
        /\ SpanText(result.original) = originalText
        /\ SpanText(result.corrected) = correctedText

\* The views createTextDiff(s, s) is claimed to return: one equal span of
\* text s in each, no changes.
IdentityResult(s) ==
    /\ KindsAndTexts(result.original) = << <<"equal", s>> >>
    /\ KindsAndTexts(result.corrected) = << <<"equal", s>> >>
    /\ result.hasChanges = FALSE
    /\ result.changeCount = 0

\* C3 as stated: createTextDiff(s, s) is one equal span of text s in each
\* view, hasChanges = false and changeCount = 0, for every string s, the
\* empty string included.
C3_IdentityAnyString ==
    (called = "createTextDiff" /\ originalText = correctedText) =>
        IdentityResult(originalText)

\* C3 as amended: createTextDiff(s, s) is one equal span of text s in each
\* view for every non-empty s, and two empty views for the empty string;
\* in both cases hasChanges = false and changeCount = 0.
C3_Identity ==
    (called = "createTextDiff" /\ originalText = correctedText) =>
        /\ originalText # <<>> => IdentityResult(originalText)
        /\ originalText = <<>> => result.original = <<>> /\ result.corrected = <<>>
        /\ result.hasChanges = FALSE
        /\ result.changeCount = 0

\* createTextDiff(s, s) was called with a string of several characters.
C3_Witness ==
    /\ called = "createTextDiff"
    /\ originalText = correctedText
    /\ Len(originalText) >= 2
    /\ Len(result.original) = 1

\* C4: one empty side.  createTextDiff("", x) with x non-empty is an empty
\* original-side view and one insert span of text x; createTextDiff(x, "")
\* is an empty corrected-side view and one delete span of text x.
C4_OneEmptySide ==
    called = "createTextDiff" =>
        /\ (originalText = <<>> /\ correctedText # <<>>) =>
              /\ result.original = <<>>
              /\ KindsAndTexts(result.corrected) = << <<"insert", correctedText>> >>
        /\ (correctedText = <<>> /\ originalText # <<>>) =>
              /\ result.corrected = <<>>
              /\ KindsAndTexts(result.original) = << <<"delete", originalText>> >>

\* createTextDiff(x, "") was called with x of several characters.
C4_Witness ==
    /\ called = "createTextDiff"
    /\ correctedText = <<>>
    /\ Len(originalText) >= 2
    /\ Len(result.original) = 1
    /\ result.original[1].type = "delete"

\* The characters of a string.
Chars(text) == {text[i] : i \in DOMAIN text}

\* C5: disjoint inputs.  For non-empty a and b that share no character,
\* createInlineDiff(a, b) is a delete span of text a followed by an insert
\* span of text b.
C5_DisjointInline ==
    (/\ called = "createInlineDiff"
     /\ originalText # <<>>
     /\ correctedText # <<>>
     /\ Chars(originalText) \cap Chars(correctedText) = {}) =>
        KindsAndTexts(result) = << <<"delete", originalText>>, <<"insert", correctedText>> >>

\* createInlineDiff was called on disjoint inputs of two characters or more
\* each, which go through diff_bisect_.
C5_Witness ==
    /\ called = "createInlineDiff"
    /\ Len(originalText) >= 2
    /\ Len(correctedText) >= 2
    /\ Chars(originalText) \cap Chars(correctedText) = {}
    /\ Len(result) = 2

\* original and corrected are p+x+s and p+y+s with x # y at position i.
IsSubstitutionAt(original, corrected, i) ==
    /\ Len(original) = Len(corrected)
    /\ i \in DOMAIN original
    /\ original[i] # corrected[i]
    /\ \A j \in DOMAIN original : j # i => original[j] = corrected[j]

\* An equal span of the given text, present iff the text is not empty.
EqualRun(text) == IF text = <<>> THEN <<>> ELSE << <<"equal", text>> >>

UnitBoundaries(text) ==
    {0, Len(text)} \cup
    {k \in 1..(Len(text) - 1) : (text[k] \in Whitespace) # (text[k + 1] \in Whitespace)}

\* Every span of the view begins and ends on a unit boundary of text.
OnUnitBoundaries(view, text) ==
    \A i \in DOMAIN view :
        /\ view[i].index \in UnitBoundaries(text)
        /\ view[i].index + Len(view[i].text) \in UnitBoundaries(text)

\* C7: word granularity.  In getWordDiff(a, b) every span begins and ends
\* on a boundary between whitespace-delimited units of its side's text; no
\* span begins or ends inside a word.  Stated for inputs free of line feeds,
\* where the views reconstruct the inputs and the positions of the spans in
\* the inputs are their indexes.
C7_WordGranularity ==
    (/\ called = "getWordDiff"
     /\ "\n" \notin Chars(originalText) \cup Chars(correctedText)) =>
        /\ OnUnitBoundaries(result.original, originalText)
        /\ OnUnitBoundaries(result.corrected, correctedText)

\* C8: view kinds.  The original-side view of createTextDiff and of
\* getWordDiff holds only equal and delete spans, the corrected-side view
\* only equal and insert spans.
C8_ViewKinds ==
    IsProcessedDiff =>
        /\ \A i \in DOMAIN result.original : result.original[i].type \in {"equal", "delete"}
        /\ \A i \in DOMAIN result.corrected : result.corrected[i].type \in {"equal", "insert"}

\* A diff whose alignment holds a delete and an insert: each went to its
\* own view only.
C8_Witness ==
    /\ called = "getWordDiff"
    /\ \E i \in DOMAIN diffs : diffs[i].op = DIFF_DELETE /\ StripNewlines(diffs[i].text) # <<>>
    /\ \E i \in DOMAIN diffs : diffs[i].op = DIFF_INSERT /\ StripNewlines(diffs[i].text) # <<>>
    /\ \E i \in DOMAIN result.original : result.original[i].type = "delete"
    /\ \A i \in DOMAIN result.original : result.original[i].type # "insert"

\* Every span's index is the total text length of the spans before it in
\* the same view.
RunningOffsets(view) ==
    \A i \in DOMAIN view : view[i].index = Len(SpanText(SubSeq(view, 1, i - 1)))

\* C9: offsets.  In each view of createTextDiff and of getWordDiff the
\* index of a span is the sum of the text lengths of the spans before it in
\* that view.
C9_Offsets ==
    IsProcessedDiff =>
        /\ RunningOffsets(result.original)
        /\ RunningOffsets(result.corrected)

\* A diff where the two views have run apart: a span that follows a
\* deletion in the original view and an insertion of another length in the
\* corrected view.
C9_Witness ==
    /\ called = "createTextDiff"
    /\ Len(result.original) >= 2
    /\ Len(result.corrected) >= 2
    /\ result.original[Len(result.original)].type = "equal"
    /\ result.original[Len(result.original)].index
          # result.corrected[Len(result.corrected)].index
    /\ result.original[Len(result.original)].index >= 2

\* C10: change flags.  For createTextDiff and getWordDiff, changeCount is
\* the number of insert and delete operations of the alignment, and
\* hasChanges is true iff the alignment holds an insert or a delete.
C10_ChangeFlags ==
    IsProcessedDiff =>
        /\ result.changeCount = EditCount(diffs)
        /\ result.hasChanges <=> (EditCount(diffs) > 0)

\* Number of spans of the given kind in a view, counted span by span.
RECURSIVE SpansOfKind(_, _)
SpansOfKind(view, kind) ==
    IF view = <<>> THEN 0
    ELSE (IF Head(view).type = kind THEN 1 ELSE 0) + SpansOfKind(Tail(view), kind)

\* C11: statistics counts.  For every ProcessedDiff d, getDiffStats(d)
\* reports as insertions the number of insert spans of d.corrected, as
\* deletions the number of delete spans of d.original, and as changes
\* their sum.
C11_StatsCounts ==
    stats # NoResult =>
        /\ stats.insertions = SpansOfKind(result.corrected, "insert")
        /\ stats.deletions = SpansOfKind(result.original, "delete")
        /\ stats.changes = stats.insertions + stats.deletions

\* getDiffStats ran on a ProcessedDiff whose views also hold spans of the
\* kinds that are not counted there.
C11_Witness ==
    /\ called = "given"
    /\ stats # NoResult
    /\ stats.insertions = 1
    /\ stats.deletions = 2
    /\ SpansOfKind(result.corrected, "delete") = 1
    /\ SpansOfKind(result.original, "insert") = 0

\* h is x rounded to the nearest integer, halves upward, for x = num / den
\* with den > 0: h - 1/2 <= x < h + 1/2.
IsRounded(h, num, den) ==
    /\ (2 * h - 1) * den <= 2 * num
    /\ 2 * num < (2 * h + 1) * den

\* C12: accuracy.  With L the total text length of the original-side view,
\* getDiffStats returns accuracy 100 when L = 0 and otherwise
\* max(0, (L - changes) / L * 100) rounded to two decimals (33.33 for L = 3
\* and two changes); it is never below 0 nor above 100.  Accuracy is in
\* hundredths here.
C12_Accuracy ==
    stats # NoResult =>
        LET L == Len(SpanText(result.original))
            changes == SpansOfKind(result.corrected, "insert")
                           + SpansOfKind(result.original, "delete")
        IN  /\ L = 0 => stats.accuracyHundredths = 10000
            /\ (L > 0 /\ changes >= L) => stats.accuracyHundredths = 0
            /\ (L > 0 /\ changes < L) =>
                   IsRounded(stats.accuracyHundredths, 10000 * (L - changes), L)
            /\ (L = 3 /\ changes = 2) => stats.accuracyHundredths = 3333
            /\ stats.accuracyHundredths >= 0
            /\ stats.accuracyHundredths <= 10000

\* getDiffStats ran on an original-side view of three characters with one
\* change, where the accuracy, 66.666..., is rounded up to 66.67.
C12_Witness ==
    /\ stats # NoResult
    /\ Len(SpanText(result.original)) = 3
    /\ stats.changes = 1
    /\ stats.accuracyHundredths = 6667

\* The texts of the spans of a view whose kind is in kinds, concatenated
\* in order.
RECURSIVE KindText(_, _)
KindText(view, kinds) ==
    IF view = <<>> THEN <<>>
    ELSE (IF Head(view).type \in kinds THEN Head(view).text ELSE <<>>)
             \o KindText(Tail(view), kinds)

\* C13: inline reconstruction.  In createInlineDiff(a, b) the texts of the
\* equal and delete spans concatenate, in order, to a, and those of the
\* equal and insert spans to b.
C13_InlineRoundTrip ==
    called = "createInlineDiff" =>
        /\ KindText(result, {"equal", "delete"}) = originalText
        /\ KindText(result, {"equal", "insert"}) = correctedText

\* createInlineDiff returned a sequence that interleaves all three kinds.
C13_Witness ==
    /\ called = "createInlineDiff"
    /\ Len(result) >= 3
    /\ \E i \in DOMAIN result : result[i].type = "equal"
    /\ \E i \in DOMAIN result : result[i].type = "delete"
    /\ \E i \in DOMAIN result : result[i].type = "insert"
    /\ KindText(result, {"equal", "delete"}) = originalText
    /\ KindText(result, {"equal", "insert"}) = correctedText

\* C14: determinism.  Two calls of createTextDiff(a, b) return the same
\* result whatever the time each takes against the 1-second timeout: the
\* result of a call is the result of every call on the same inputs, of one
\* that passes the deadline and of one that does not.
C14_Determinism ==
    called = "createTextDiff" =>
        \A expired \in BOOLEAN :
            result = createTextDiff(textDiffs(originalText, correctedText, expired))

\* The call's alignment is the one diff_bisect_ yields past its deadline.
TimedOut == diffs = textDiffs(originalText, correctedText, TRUE)

\* C15: timeout degradation.  A createTextDiff call whose alignment ran
\* past the deadline still returns a ProcessedDiff, and its views still
\* reconstruct the original and the corrected string.
C15_TimeoutRoundTrip ==
    (called = "createTextDiff" /\ TimedOut) =>
        /\ DOMAIN result = {"original", "corrected", "hasChanges", "changeCount"}
        /\ SpanText(result.original) = originalText
        /\ SpanText(result.corrected) = correctedText

\* A call that ran past the deadline and whose alignment is not the one
\* it yields in time.
C15_Witness ==
    /\ called = "createTextDiff"
    /\ TimedOut
    /\ diffs # textDiffs(originalText, correctedText, FALSE)
    /\ SpanText(result.original) = originalText
    /\ SpanText(result.corrected) = correctedText

\* C16: invalid arguments.  A call of createTextDiff, getWordDiff or
\* createInlineDiff with an argument that is no string fails: it throws,
\* and returns no diff of the value.  Any error thrown counts as the
\* InvalidArgument condition here.
C16_InvalidArgument ==
    (called # "none" /\ ~(IsString(originalText) /\ IsString(correctedText))) =>
        result.threw # "none"

\* No span of the view has empty text.
NoEmptySpan(view) == \A i \in DOMAIN view : view[i].text # <<>>

\* C17: no empty spans.  Every span returned by createTextDiff, getWordDiff
\* and createInlineDiff has non-empty text.
C17_NoEmptySpans ==
    /\ IsProcessedDiff => NoEmptySpan(result.original) /\ NoEmptySpan(result.corrected)
    /\ called = "createInlineDiff" => NoEmptySpan(result)

\* A getWordDiff call whose alignment holds an operation of line feeds
\* only, which leaves no span, beside operations that do.
C17_Witness ==
    /\ called = "getWordDiff"
    /\ \E i \in DOMAIN diffs : StripNewlines(diffs[i].text) = <<>>
    /\ Len(result.original) >= 1
    /\ Len(result.original) < Len(diffs)
    /\ NoEmptySpan(result.original)
    /\ NoEmptySpan(result.corrected)

\* C19: merged runs.  In the sequence createInlineDiff returns no two
\* consecutive spans have the same kind.
C19_MergedRuns ==
    called = "createInlineDiff" =>
        \A i \in 1..(Len(result) - 1) : result[i].type # result[i + 1].type

\* The text neither begins with the second half of a code point nor ends
\* with the first half of one.
WholeCodePoints(text) ==
    text # <<>> => text[1] \notin {"L", "M"} /\ text[Len(text)] # "H"

\* Number of code points of a well-formed text.
RECURSIVE CodePointCount(_)
CodePointCount(text) ==
    IF text = <<>> THEN 0
    ELSE (IF Head(text) \in {"L", "M"} THEN 0 ELSE 1) + CodePointCount(Tail(text))

\* Every span of the view holds whole code points, and its index is the
\* number of code points before it in the view.
CodePointSpans(view) ==
    \A i \in DOMAIN view :
        /\ WholeCodePoints(view[i].text)
        /\ view[i].index = CodePointCount(SpanText(SubSeq(view, 1, i - 1)))

\* C18: code-point awareness.  createTextDiff treats a code point as one
\* unit: no span begins or ends between the two halves of a surrogate pair,
\* and span indexes count a pair as one.
C18_CodePoints ==
    called = "createTextDiff" =>
        /\ CodePointSpans(result.original)
        /\ CodePointSpans(result.corrected)

\* What fn returns for the inputs a and b when it runs alone, for either
\* outcome of the deadline test.
ResultsAlone(fn, a, b) ==
    IF fn = "createTextDiff"
    THEN {createTextDiff(textDiffs(a, b, expired)) : expired \in BOOLEAN}
    ELSE IF fn = "getWordDiff"
    THEN {getWordDiff(wordDiffs(a, b, expired)) : expired \in BOOLEAN}
    ELSE {createInlineDiff(textDiffs(a, b, expired)) : expired \in BOOLEAN}

RECURSIVE KindsAndTextsOf(_, _)
KindsAndTextsOf(view, kinds) ==
    IF view = <<>> THEN <<>>
    ELSE (IF Head(view).type \in kinds
          THEN << <<Head(view).type, Head(view).text>> >> ELSE <<>>)
             \o KindsAndTextsOf(Tail(view), kinds)

\* C22: the inline and the side-by-side view agree.  The equal and delete
\* spans of createInlineDiff(a, b) have, in order, the kinds and texts of
\* createTextDiff(a, b).original, and its equal and insert spans those of
\* createTextDiff(a, b).corrected, whatever the time the createTextDiff
\* call takes against its own deadline.
C22_ViewsAgree ==
    called = "createInlineDiff" =>
        \A expired \in BOOLEAN :
            /\ KindsAndTextsOf(result, {"equal", "delete"})
                   = KindsAndTexts(createTextDiff(
                         textDiffs(originalText, correctedText, expired)).original)
            /\ KindsAndTextsOf(result, {"equal", "insert"})
                   = KindsAndTexts(createTextDiff(
                         textDiffs(originalText, correctedText, expired)).corrected)

\* The same, for a createTextDiff call whose deadline falls as that of the
\* createInlineDiff call did.
C22_ViewsAgreeSameDeadline ==
    called = "createInlineDiff" =>
        /\ KindsAndTextsOf(result, {"equal", "delete"})
               = KindsAndTexts(createTextDiff(diffs).original)
        /\ KindsAndTextsOf(result, {"equal", "insert"})
               = KindsAndTexts(createTextDiff(diffs).corrected)

\* C23: hasChanges tells whether the inputs differ.  In createTextDiff(a, b)
\* and in getWordDiff(a, b), hasChanges is false if and only if a = b.
C23_HasChanges ==
    IsProcessedDiff => (result.hasChanges = FALSE <=> originalText = correctedText)

\* The same for createTextDiff alone.
C23_HasChangesCharacter ==
    called = "createTextDiff" =>
        (result.hasChanges = FALSE <=> originalText = correctedText)

\* C24: the statistics count what the diff counted.  For every result d of
\* createTextDiff or getWordDiff, getDiffStats(d).changes = d.changeCount.
C24_ChangesIsChangeCount ==
    (IsProcessedDiff /\ stats # NoResult) => stats.changes = result.changeCount

\* getDiffStats has run on a getWordDiff result with two counted changes and
\* an operation of line feeds only that was dropped.
C24_Witness ==
    /\ called = "getWordDiff"
    /\ stats # NoResult
    /\ result.changeCount >= 2
    /\ EditCount(diffs) > result.changeCount
    /\ stats.changes = result.changeCount

(* ------------------- claims: ProgressIndicator, store ------------------ *)

\* C21: the stage ProgressIndicator shows is a function of the progress
\* value: initializing below 10, parsing from 10 to 25, processing from 25
\* to 90 and completing from 90 to 100; at 25 and at 90, which two ranges of
\* the claim share, either of the two stages is accepted.
C21_StageOfProgress ==
    /\ processingProgress[1] < 10 * processingProgress[2]
           => currentStage(processingProgress).key = "initializing"
    /\ (/\ processingProgress[1] >= 10 * processingProgress[2]
        /\ processingProgress[1] <= 25 * processingProgress[2])
           => currentStage(processingProgress).key \in {"parsing", "processing"}
    /\ (/\ processingProgress[1] >= 10 * processingProgress[2]
        /\ processingProgress[1] < 25 * processingProgress[2])
           => currentStage(processingProgress).key = "parsing"
    /\ (/\ processingProgress[1] > 25 * processingProgress[2]
        /\ processingProgress[1] < 90 * processingProgress[2])
           => currentStage(processingProgress).key = "processing"
    /\ processingProgress[1] = 90 * processingProgress[2]
           => currentStage(processingProgress).key \in {"processing", "completing"}
    /\ processingProgress[1] > 90 * processingProgress[2]
           => currentStage(processingProgress).key = "completing"

\* C25: isProcessing and isCompleted are never both true, a second run
\* started without a reset included.
C25_NotProcessingAndCompleted == ~(isProcessing /\ isCompleted)

\* C26: whenever isCompleted is true every paragraph has status completed or
\* error, whatever the backend returned for each batch.
C26_CompletedLeavesNoneBehind ==
    isCompleted => \A n \in DOMAIN paragraphs :
                       paragraphs[n].status \in {"completed", "error"}

\* C27: after cancelProcessing has aborted the controller of a run, and as
\* long as no later run is started, a step of that run leaves isProcessing
\* false and paragraphs, processingProgress and isCompleted as they are.
C27_CancellationIsEffective ==
    [][\A r \in RunIds :
           (/\ aborted[r] = "cancelProcessing"
            /\ runs'[r] # runs[r]
            /\ \A q \in RunIds : q > r => runs'[q].pc = "idle")
               => /\ isProcessing' = FALSE
                  /\ UNCHANGED <<paragraphs, processingProgress, isCompleted>>]_vars

\* C28: while one run alone has been started and isProcessing stays true,
\* processingProgress never decreases.
C28_ProgressNeverDecreases ==
    [][(/\ isProcessing
        /\ isProcessing'
        /\ \A q \in RunIds : q > 1 => runs'[q].pc = "idle")
           => processingProgress[1] * processingProgress'[2]
                  <= processingProgress'[1] * processingProgress[2]]_vars

\* C29: when processDirectText is called with input text that is blank or
\* longer than 10000 characters, it sets error to the validation message and
\* returns: the run is over without a backend call, and isProcessing,
\* isCompleted, processingProgress and paragraphs are unchanged.
C29_ValidationFailure ==
    [][\A r \in RunIds :
           (/\ runs[r].pc = "processDirectText"
            /\ \/ \A i \in 1..Len(inputText) : inputText[i] \in Whitespace
               \/ Len(inputText) > 10000)
               => /\ error' = IF \A i \in 1..Len(inputText) : inputText[i] \in Whitespace
                              THEN "Please enter the text to correct"
                              ELSE "Text length exceeds the limit (10000 characters)"
                  /\ runs'[r].pc = "rejectedText"
                  /\ UNCHANGED <<isProcessing, isCompleted, processingProgress,
                                 paragraphs>>]_vars

\* A run that processDirectText ended on a text longer than 10000 characters,
\* the message in error and nothing processed.
C29_Witness ==
    \E r \in RunIds :
        /\ runs[r].pc = "rejectedText"
        /\ Len(inputText) > 10000
        /\ error = "Text length exceeds the limit (10000 characters)"
        /\ ~isProcessing
        /\ paragraphs = <<>>

\* C30: splitIntoParagraphs returns only non-empty paragraphs of at most 500
\* characters each, here the paragraphs processDirectText stored from it.
C30_ParagraphLengths ==
    \A n \in DOMAIN paragraphs :
        /\ Len(paragraphs[n].text) > 0
        /\ Len(paragraphs[n].text) <= 500

====
